---------------------------- MODULE Spec2Model ----------------------------
(***************************************************************************)
(* Wind-load engine of windcalc (src/windcalc): the ASCE 7 pressure model, *)
(* the post catalog and its bending check, capacity-based auto-selection,  *)
(* the per-role block evaluation, and the risk classifier.                 *)
(*                                                                         *)
(* Numbers are fixed point.  The suffix of a name gives the unit:          *)
(*   ..6   millionths (1e-6) of the natural unit                           *)
(*   ..C   hundredths (0.01): psf, lb, ft, lb-in                           *)
(*   ..M   thousandths (0.001): ratios; catalog inches (mils)              *)
(* Python's round(x, n) is modelled by RoundDiv / Round3 (round half to    *)
(* even on the exact quotient).  A binary float that sits on a decimal tie *)
(* (3918.095) may round the other way in Python, so a reported number can  *)
(* differ from the model's by one unit in its last place; keys, labels,    *)
(* statuses and spacing ratios agree with the engine on every request of   *)
(* Inputs.  Optional numbers are <<>> (None) or <<x>>.  Optional strings   *)
(* use the sentinel None.                                                  *)
(***************************************************************************)
EXTENDS Integers, Sequences, FiniteSets, TLC

None == "None"

NoNum == <<>>

Some(x) == <<x>>

IsNone(v) == v = <<>>

Val(v) == v[1]

\* Python truthiness of an optional string: None and "" are falsy.
Truthy(s) == s /= None /\ s /= ""

\* Python truthiness of an optional number: None and 0 are falsy.
TruthyNum(v) == v /= <<>> /\ v[1] /= 0

\* `a or b` on optional strings.
OrElse(a, b) == IF Truthy(a) THEN a ELSE b

Max(a, b) == IF a >= b THEN a ELSE b

(***************************************************************************)
(* Fixed-point arithmetic                                                  *)
(***************************************************************************)

\* round(n / d) cutting the fraction off instead of rounding.
RoundDiv_Truncating(n, d) == n \div d

\* round(n / d) to an integer, ties to even (n >= 0, d > 0).
RoundDiv(n, d) ==
    LET q == n \div d
        r == n % d
    IN  IF 2 * r > d THEN q + 1
        ELSE IF 2 * r < d THEN q
        ELSE IF q % 2 = 0 THEN q ELSE q + 1

\* floor(x * k / 10^6) for two 6-decimal fixed-point numbers, without
\* forming the full product.
Mul6(x, k) ==
    LET xh == x \div 1000
        xl == x % 1000
        kh == k \div 1000
        kl == k % 1000
    IN  xh * kh + (xh * kl + xl * kh + (xl * kl) \div 1000) \div 1000

\* Long division: the pair <<floor(r * 10^n / d), remainder>> for r < d.
RECURSIVE Digits(_, _, _)
Digits(r, d, n) ==
    IF n = 0 THEN <<0, r>>
    ELSE LET hi   == (r * 10) \div d
             rest == Digits((r * 10) % d, d, n - 1)
             p    == IF n = 1 THEN 1
                     ELSE IF n = 2 THEN 10
                     ELSE IF n = 3 THEN 100
                     ELSE IF n = 4 THEN 1000
                     ELSE IF n = 5 THEN 10000
                     ELSE 100000
         IN  <<hi * p + rest[1], rest[2]>>

\* floor(x * 10^6 / d): quotient of two numbers of the same scale, to 6 decimals.
Div6(x, d) == (x \div d) * 1000000 + Digits(x % d, d, 6)[1]

\* <<q, r>> with a * b = q * c + r and 0 <= r < c, by long multiplication
\* over the base-4 digits of b, so that the full product is never formed
\* (c < 3 * 10^8).
RECURSIVE MulDivQR(_, _, _)
MulDivQR(a, b, c) ==
    IF b = 0 THEN <<0, 0>>
    ELSE LET h  == MulDivQR(a, b \div 4, c)
             r2 == 4 * h[2] + (b % 4) * (a % c)
         IN  <<4 * h[1] + (b % 4) * (a \div c) + r2 \div c, r2 % c>>

\* floor(a * b / c) for a, b >= 0 and c > 0.
MulDiv(a, b, c) == IF a >= 0 /\ b >= 0 /\ c > 0 THEN MulDivQR(a, b, c)[1] ELSE 0

\* Newton iteration for the integer square root of x * 10^6, from above.
RECURSIVE SqrtNewton(_, _)
SqrtNewton(x, s) ==
    LET t == (s + Div6(x, s)) \div 2
    IN  IF t >= s THEN s ELSE SqrtNewton(x, t)

\* math.sqrt on a 6-decimal fixed-point number (0 <= x < 2147 * 10^6).
Sqrt6(x) ==
    IF x <= 0 THEN 0
    ELSE LET am == (x + 1000000) \div 2 + 1   \* >= the root (AM-GM)
         IN  SqrtNewton(x, IF am < 46340000 THEN am ELSE 46340000)

\* round(n / d, 3) in thousandths, ties to even (n >= 0, d > 0).
Round3(n, d) ==
    LET dg == Digits(n % d, d, 3)
        q  == (n \div d) * 1000 + dg[1]
        r  == dg[2]
    IN  IF 2 * r > d THEN q + 1
        ELSE IF 2 * r < d THEN q
        ELSE IF q % 2 = 0 THEN q ELSE q + 1

(***************************************************************************)
(* Post catalog (post_catalog.py)                                          *)
(***************************************************************************)

\* One catalog record.  od/wall in mils, base height and spacing in ft,
\* fy in ksi, section modulus in 1e-6 in^3, footing sizes in inches.
PostType(label, group, od, wall, hbase, sbase, fy, smod, tlabel, fdia, femb) ==
    [label |-> label, group |-> group, od_in |-> od, wall_in |-> wall,
     height_base_ft |-> hbase, spacing_base_ft |-> sbase, fy_ksi |-> fy,
     section_modulus_in3 |-> smod, table_label |-> tlabel,
     footing_diameter_in |-> fdia, footing_embedment_in |-> femb]

POST_TYPES ==
    "1_5_8_SS20" :> PostType("1-5/8\" SS20", "IA_REG", <<1660>>, <<65>>, 6, 8, 30, <<>>, None, <<8>>, <<24>>) @@
    "1_7_8_SS20" :> PostType("1-7/8\" SS20", "IA_REG", <<1900>>, <<65>>, 6, 8, 30, <<>>, None, <<8>>, <<24>>) @@
    "2_3_8_SS20" :> PostType("2-3/8\" SS20", "IA_REG", <<2375>>, <<65>>, 6, 8, 30, <<>>, None, <<10>>, <<24>>) @@
    "2_7_8_SS20" :> PostType("2-7/8\" SS20", "IA_REG", <<2875>>, <<65>>, 6, 10, 30, <<>>, None, <<10>>, <<30>>) @@
    "3_1_2_SS20" :> PostType("3-1/2\" SS20", "IA_REG", <<3500>>, <<65>>, 8, 10, 30, <<>>, None, <<12>>, <<30>>) @@
    "4_0_SS20" :> PostType("4\" SS20", "IA_REG", <<4000>>, <<75>>, 8, 10, 30, <<>>, None, <<14>>, <<36>>) @@
    "1_7_8_PIPE" :> PostType("1-7/8\" SS40", "IC_PIPE", <<1900>>, <<120>>, 6, 8, 50, <<>>, "1 7/8\"", <<10>>, <<24>>) @@
    "2_3_8_SS40" :> PostType("2-3/8\" SS40", "IC_PIPE", <<2375>>, <<130>>, 6, 8, 50, <<>>, "2 3/8\"", <<10>>, <<24>>) @@
    "2_7_8_SS40" :> PostType("2-7/8\" SS40", "IC_PIPE", <<2875>>, <<160>>, 6, 10, 50, <<>>, "2 7/8\"", <<12>>, <<30>>) @@
    "3_1_2_SS40" :> PostType("3-1/2\" SS40", "IC_PIPE", <<3500>>, <<160>>, 8, 10, 50, <<>>, "3 1/2\"", <<16>>, <<36>>) @@
    "4_0_PIPE" :> PostType("4\" SS40", "IC_PIPE", <<4000>>, <<160>>, 8, 10, 50, <<>>, "4\"", <<18>>, <<42>>) @@
    "6_5_8_PIPE" :> PostType("6-5/8\" SS40", "IC_PIPE", <<6625>>, <<280>>, 8, 10, 50, <<>>, "6 5/8\"", <<24>>, <<48>>) @@
    "8_5_8_PIPE" :> PostType("8-5/8\" SS40", "IC_PIPE", <<8625>>, <<322>>, 8, 10, 50, <<>>, "8 5/8\"", <<30>>, <<54>>) @@
    "2_3_8_S80" :> PostType("2-3/8\" Sch80", "IC_PIPE", <<2375>>, <<218>>, 6, 8, 50, <<>>, None, <<10>>, <<24>>) @@
    "2_7_8_S80" :> PostType("2-7/8\" Sch80", "IC_PIPE", <<2875>>, <<276>>, 6, 10, 50, <<>>, None, <<12>>, <<30>>) @@
    "3_1_2_S80" :> PostType("3-1/2\" Sch80", "IC_PIPE", <<3500>>, <<300>>, 8, 10, 50, <<>>, None, <<16>>, <<36>>) @@
    "4_0_S80" :> PostType("4\" Sch80", "IC_PIPE", <<4000>>, <<318>>, 8, 10, 50, <<>>, None, <<18>>, <<42>>) @@
    "C_1_7_8_X_1_5_8_X_105" :> PostType("1 7/8\" x 1 5/8\" x .105\" C-Shape", "II_CSHAPE", <<>>, <<>>, 6, 8, 50, <<>>, "1 7/8\" x 1 5/8\" x .105", <<10>>, <<24>>) @@
    "C_1_7_8_X_1_5_8_X_121" :> PostType("1 7/8\" x 1 5/8\" x .121\" C-Shape", "II_CSHAPE", <<>>, <<>>, 6, 8, 50, <<>>, "1 7/8\" x 1 5/8\" x .121", <<10>>, <<24>>) @@
    "C_2_1_4_X_1_5_8_X_121" :> PostType("2 1/4\" x 1 5/8\" x .121\" C-Shape", "II_CSHAPE", <<>>, <<>>, 6, 8, 50, <<>>, "2 1/4\" x 1 5/8\" x .121", <<12>>, <<30>>) @@
    "C_3_1_4_X_2_1_2_X_130" :> PostType("3 1/4\" x 2 1/2\" x .130\" C-Shape", "II_CSHAPE", <<>>, <<>>, 6, 8, 50, <<>>, "3 1/4\" x 2 1/2\" x .130", <<14>>, <<36>>)

\* _PIPE_POSTS_BY_SIZE without its largest member.
_PIPE_POSTS_BY_SIZE_Short ==
    <<"1_7_8_PIPE", "2_3_8_SS40", "2_7_8_SS40", "3_1_2_SS40", "4_0_PIPE",
      "6_5_8_PIPE">>

\* _PIPE_POSTS_BY_SIZE with two neighbours exchanged.
_PIPE_POSTS_BY_SIZE_Swapped ==
    <<"1_7_8_PIPE", "2_3_8_SS40", "3_1_2_SS40", "2_7_8_SS40", "4_0_PIPE",
      "6_5_8_PIPE", "8_5_8_PIPE">>

\* Pipe posts ordered by increasing bending capacity; the iteration order of
\* the capacity-based auto-selector.
_PIPE_POSTS_BY_SIZE ==
    <<"1_7_8_PIPE", "2_3_8_SS40", "2_7_8_SS40", "3_1_2_SS40",
      "4_0_PIPE", "6_5_8_PIPE", "8_5_8_PIPE">>

\* math.pi in millionths.
Pi6 == 3141593

\* ASD safety factor omega = 1.67, in hundredths.
OmegaC == 167

\* D^4 - d^4 of a tube with inner diameter d = D - 2t, in 1e-6 in^4 (od, wall
\* in mils), formed as (D^2 - d^2) * (D^2 + d^2); both factors are exact in
\* 1e-6 in^2.
TubeQuartic(od, wall) ==
    LET D  == od
        d  == D - 2 * wall
        D2 == D * D
        d2 == d * d
    IN  Mul6(D2 - d2, D2 + d2)

\* Section modulus S = pi * (D^4 - d^4) / (32 * D) of a hollow tube, in
\* 1e-6 in^3.
section_modulus_pipe(od, wall) ==
    Mul6(Div6(TubeQuartic(od, wall), od * 1000), Pi6) \div 32

\* Moment of inertia I = pi * (D^4 - d^4) / 64, in 1e-6 in^4.
moment_of_inertia_pipe(od, wall) ==
    Mul6(TubeQuartic(od, wall) \div 8, Pi6) \div 8

\* Allowable moment M_allow = fy_psi * S / omega, in hundredths of lb-in.
\* S in 1e-6 in^3, fy in ksi.
bending_capacity_lb_in(S6, fy_ksi) ==
    LET n == fy_ksi * S6
    IN  (n \div OmegaC) * 10 + ((n % OmegaC) * 10) \div OmegaC

\* The section modulus (1e-6 in^3) compute_moment_check uses for each catalog
\* member: the explicit catalog figure, else the pipe formula on od and
\* wall, else None (no geometry).  A fixed property of the catalog.
PostSectionModulus ==
    [k \in DOMAIN POST_TYPES |->
        LET post == POST_TYPES[k]
        IN  IF ~IsNone(post.section_modulus_in3) THEN post.section_modulus_in3
            ELSE IF ~IsNone(post.od_in) /\ ~IsNone(post.wall_in)
            THEN Some(section_modulus_pipe(Val(post.od_in), Val(post.wall_in)))
            ELSE NoNum]

\* compute_moment_check with the resultant at the top of the post: the lever
\* arm is the full height.
compute_moment_check_FullHeightLever(post_key, height_ft, loadC) ==
    LET S == PostSectionModulus[post_key]
    IN  IF ~IsNone(S)
        THEN LET M_allow  == bending_capacity_lb_in(Val(S), POST_TYPES[post_key].fy_ksi)
                 M_demand == loadC * 12 * height_ft
             IN  [M_demand |-> M_demand, M_allow |-> M_allow,
                  ok |-> M_demand <= M_allow]
        ELSE [M_demand |-> 0, M_allow |-> 0, ok |-> TRUE]

\* compute_moment_check failing, instead of skipping, a post without
\* geometry.
compute_moment_check_FailsWithoutGeometry(post_key, height_ft, loadC) ==
    LET S == PostSectionModulus[post_key]
    IN  IF ~IsNone(S)
        THEN LET M_allow  == bending_capacity_lb_in(Val(S), POST_TYPES[post_key].fy_ksi)
                 M_demand == loadC * 6 * height_ft
             IN  [M_demand |-> M_demand, M_allow |-> M_allow,
                  ok |-> M_demand <= M_allow]
        ELSE [M_demand |-> loadC * 6 * height_ft, M_allow |-> 0, ok |-> FALSE]

\* compute_moment_check: demand vs allowable bending moment of a cataloged
\* post.  height in ft, load in hundredths of lb; moments in hundredths of
\* lb-in (M_demand = load * 12 h / 2).  A post without geometry is not
\* checked and reports (0, 0, ok).
compute_moment_check(post_key, height_ft, loadC) ==
    LET S == PostSectionModulus[post_key]
    IN  IF ~IsNone(S)
        THEN LET M_allow  == bending_capacity_lb_in(Val(S), POST_TYPES[post_key].fy_ksi)
                 M_demand == loadC * 6 * height_ft
             IN  [M_demand |-> M_demand, M_allow |-> M_allow,
                  ok |-> M_demand <= M_allow]
        ELSE [M_demand |-> 0, M_allow |-> 0, ok |-> TRUE]

(***************************************************************************)
(* Manufacturer spacing factors (post_catalog.py)                          *)
(***************************************************************************)

\* Cf1 per group: <<wind speed mph, factor in tenths>>, ascending in speed.
CF1_TABLE ==
    [IA_REG    |-> << <<105, 22>>, <<110, 20>>, <<120, 17>>, <<130, 14>> >>,
     IA_HIGH   |-> << <<105, 37>>, <<110, 34>>, <<120, 28>>, <<130, 24>> >>,
     IC_PIPE   |-> << <<105, 31>>, <<110, 28>>, <<120, 24>>, <<130, 20>> >>,
     II_CSHAPE |-> << <<105, 31>>, <<110, 28>>, <<120, 24>>, <<130, 20>> >>]

\* Exposure factor Cf2 in hundredths.
EXPOSURE_CF2 == [B |-> 100, C |-> 69, D |-> 57]

\* Cf3 = 1.0, in millionths.
DEFAULT_CF3 == 1000000

\* get_cf1 without the diagnostic.
get_cf1_Silent(group, wind_speed_mph) ==
    LET table == CF1_TABLE[group]
        n     == Len(table)
    IN  IF wind_speed_mph <= table[1][1]
        THEN [cf1 |-> table[1][2] * 1000, warned |-> FALSE]
        ELSE IF wind_speed_mph >= table[n][1]
        THEN [cf1 |-> table[n][2] * 1000, warned |-> FALSE]
        ELSE LET i  == CHOOSE j \in 1..(n - 1) :
                           /\ table[j][1] <= wind_speed_mph
                           /\ wind_speed_mph < table[j + 1][1]
                 lo == table[i]
                 hi == table[i + 1]
             IN  [cf1 |-> lo[2] * 1000
                          - ((wind_speed_mph - lo[1]) * (lo[2] - hi[2]) * 1000)
                              \div (hi[1] - lo[1]),
                  warned |-> FALSE]

\* get_cf1: the factor in 1e-4 units and whether the out-of-range diagnostic
\* was emitted (speeds more than 5 mph above the table).
get_cf1(group, wind_speed_mph) ==
    LET table == CF1_TABLE[group]
        n     == Len(table)
    IN  IF wind_speed_mph <= table[1][1]
        THEN [cf1 |-> table[1][2] * 1000, warned |-> FALSE]
        ELSE IF wind_speed_mph >= table[n][1]
        THEN [cf1 |-> table[n][2] * 1000,
              warned |-> wind_speed_mph > table[n][1] + 5]
        ELSE LET i  == CHOOSE j \in 1..(n - 1) :
                           /\ table[j][1] <= wind_speed_mph
                           /\ wind_speed_mph <= table[j + 1][1]
                           /\ \A m \in 1..(j - 1) :
                                ~(table[m][1] <= wind_speed_mph
                                  /\ wind_speed_mph <= table[m + 1][1])
                 lo == table[i]
                 hi == table[i + 1]
             IN  \* cf_lo + t * (cf_hi - cf_lo), t = (ws - ws_lo) / (ws_hi - ws_lo);
                 \* the table is decreasing, so the increment is subtracted.
                 [cf1 |-> lo[2] * 1000
                          - ((wind_speed_mph - lo[1]) * (lo[2] - hi[2]) * 1000)
                              \div (hi[1] - lo[1]),
                  warned |-> FALSE]

\* compute_max_spacing_cf: s_table * cf1 * cf2 * cf3, in 1e-6 ft.
compute_max_spacing_cf(post_key, wind_speed_mph, exposure) ==
    LET post == POST_TYPES[post_key]
        f    == get_cf1(post.group, wind_speed_mph)
    IN  [s_max  |-> Mul6(post.spacing_base_ft * f.cf1 * EXPOSURE_CF2[exposure],
                         DEFAULT_CF3),
         warned |-> f.warned]

(***************************************************************************)
(* ASCE 7-22 pressure model (asce7.py)                                     *)
(***************************************************************************)

\* Exposure constants <<alpha in tenths, zg in ft>>.
_EXPOSURE_CONSTANTS == [B |-> <<70, 1200>>, C |-> <<95, 900>>, D |-> <<115, 700>>]

\* Kd = 0.85 and G = 0.85, in millionths.
KD_FENCE == 850000

G_RIGID == 850000

\* 0.00256, in millionths.
QzCoeff6 == 2560

\* Cf for solid walls: <<B/s ratio, Cf in millionths>>.
_CF_SOLID_TABLE ==
    << <<2, 1200000>>, <<5, 1300000>>, <<10, 1400000>>,
       <<20, 1500000>>, <<45, 1750000>> >>

CF_SOLID_LONG_FENCE == 1500000

\* Fence type -> solidity in millionths.
FENCE_TYPES ==
    [chain_link_open          |-> 350000,
     chain_link_windscreen_50 |-> 500000,
     chain_link_windscreen_80 |-> 800000,
     chain_link_slats         |-> 850000,
     solid_panel              |-> 1000000]

\* 2.01 * (z / zg) ^ (2 / alpha) in millionths, tabulated per exposure for
\* the reference heights z (ft) the model uses; the power has no integer form.
KzPower ==
    [B |-> (15 :> 574720 @@ 16 :> 585416 @@ 20 :> 623954 @@ 24 :> 657319
            @@ 30 :> 700591),
     C |-> (15 :> 848884 @@ 16 :> 860497 @@ 20 :> 901885 @@ 24 :> 937176
            @@ 30 :> 982253),
     D |-> (15 :> 1030230 @@ 16 :> 1041858 @@ 20 :> 1083085 @@ 24 :> 1117978
            @@ 30 :> 1162217)]

\* compute_kz: the height is floored at 15 ft.
compute_kz(height_ft, exposure) ==
    LET z == Max(height_ft, 15)
    IN  KzPower[exposure][z]

\* compute_qz: 0.00256 * Kz * Kzt * Kd * V^2, in millionths of psf.
compute_qz(wind_speed_mph, height_ft, exposure, kzt6) ==
    LET kz == compute_kz(height_ft, exposure)
    IN  \* 0.00256 * V^2 is exact in millionths and is formed first, so that
        \* each later product keeps six decimals.
        Mul6(Mul6(Mul6(QzCoeff6 * wind_speed_mph * wind_speed_mph, kz), kzt6),
             KD_FENCE)

\* compute_cf_solid taking the lower table point's value between two points
\* instead of interpolating.
compute_cf_solid_Stepped(aspect) ==
    LET T == _CF_SOLID_TABLE
        n == Len(T)
    IN  IF IsNone(aspect) THEN CF_SOLID_LONG_FENCE
        ELSE LET a == Val(aspect)
             IN  IF a <= T[1][1] * 1000000 THEN T[1][2]
                 ELSE IF a >= T[n][1] * 1000000 THEN T[n][2]
                 ELSE T[CHOOSE j \in 1..(n - 1) :
                            /\ T[j][1] * 1000000 <= a
                            /\ a < T[j + 1][1] * 1000000][2]

\* compute_cf_solid: clamp outside the table, interpolate inside; aspect is
\* an optional ratio in millionths.
compute_cf_solid(aspect) ==
    LET T == _CF_SOLID_TABLE
        n == Len(T)
    IN  IF IsNone(aspect) THEN CF_SOLID_LONG_FENCE
        ELSE LET a == Val(aspect)
             IN  IF a <= T[1][1] * 1000000 THEN T[1][2]
                 ELSE IF a >= T[n][1] * 1000000 THEN T[n][2]
                 ELSE LET i == CHOOSE j \in 1..(n - 1) :
                                 /\ T[j][1] * 1000000 <= a
                                 /\ a <= T[j + 1][1] * 1000000
                                 /\ \A m \in 1..(j - 1) :
                                      ~(T[m][1] * 1000000 <= a
                                        /\ a <= T[m + 1][1] * 1000000)
                          t == (a - T[i][1] * 1000000) \div (T[i + 1][1] - T[i][1])
                      IN  T[i][2] + Mul6(t, T[i + 1][2] - T[i][2])

\* compute_cf: Cf_solid * max(solidity, 0).
compute_cf(solidity6, aspect) == Mul6(compute_cf_solid(aspect), Max(solidity6, 0))

\* compute_design_pressure: p = qz * G * Cf, reported rounded to 2 decimals.
compute_design_pressure(wind_speed_mph, height_ft, exposure, solidity6, kzt6, aspect) ==
    LET kz       == compute_kz(height_ft, exposure)
        qz       == compute_qz(wind_speed_mph, height_ft, exposure, kzt6)
        cf_solid == compute_cf_solid(aspect)
        cf       == compute_cf(solidity6, aspect)
        pressure == Mul6(Mul6(qz, G_RIGID), cf)
    IN  [design_pressure_psf |-> RoundDiv(pressure, 10000),
         qz_psf   |-> RoundDiv(qz, 10000),
         kz       |-> RoundDiv(kz, 100),
         kzt      |-> kzt6,
         cf_solid |-> RoundDiv(cf_solid, 1000),
         cf       |-> RoundDiv(cf, 1000),
         solidity |-> solidity6]

(***************************************************************************)
(* Deflection check (post_catalog.py) and footing check (footing.py)       *)
(***************************************************************************)

\* The moment of inertia (1e-6 in^4) of each catalog member that has od and
\* wall, else None.  A fixed property of the catalog.
PostInertia ==
    [k \in DOMAIN POST_TYPES |->
        LET post == POST_TYPES[k]
        IN  IF IsNone(post.od_in) \/ IsNone(post.wall_in) THEN NoNum
            ELSE Some(moment_of_inertia_pipe(Val(post.od_in), Val(post.wall_in)))]

\* Deflection limit L / 60.
DeflectionLimitRatio == 60

\* compute_deflection_check: delta = P * L^3 / (8 * E * I) against L / 60,
\* E = 29,000,000 psi, L = 12 * height.  With P in hundredths of lb and I in
\* 1e-6 in^4 this is P * (216 h^3 * 10^6 / I) / 2900 millionths of an inch.
\* Returned deflection and limit are rounded to 3 decimals (mils); ok
\* compares the unrounded values.
compute_deflection_check(post_key, height_ft, loadC) ==
    LET I == PostInertia[post_key]
    IN  IF IsNone(I) \/ Val(I) <= 0
        THEN [deflection_in |-> 0, allowable_in |-> 0, ok |-> TRUE]
        ELSE LET u     == MulDiv(216 * height_ft * height_ft * height_ft,
                                 1000000, Val(I))
                 delta == MulDiv(loadC, u, 2900)
                 allow == (height_ft * 12 * 1000000) \div DeflectionLimitRatio
             IN  [deflection_in |-> RoundDiv(delta, 1000),
                  allowable_in  |-> RoundDiv(allow, 1000),
                  ok            |-> delta <= allow]

\* Lateral bearing pressure per soil class, psf per ft of depth.
SOIL_CLASSES ==
    [rock_crystalline |-> 1200, rock_sedimentary |-> 400, gravel |-> 200,
     sand |-> 150, clay |-> 100, default |-> 150]

\* Required safety factor 1.5, in millionths.
RequiredSF == 1500000

\* sqrt(1.5), in millionths.
SqrtRequiredSF == Sqrt6(RequiredSF)

\* compute_footing_check (IBC 1807.3.1).  load in hundredths of lb, height in
\* ft, diameter and embedment in inches.  Lengths inside are millionths of a
\* foot.  An unknown soil class falls back to the default class.
compute_footing_check(loadC, height_ft, footing_diameter_in, embedment_depth_in, soil_class) ==
    LET s1    == IF soil_class \in DOMAIN SOIL_CLASSES
                 THEN SOIL_CLASSES[soil_class] ELSE SOIL_CLASSES["default"]
        d_ft  == (embedment_depth_in * 1000000) \div 12
        solve == s1 > 0 /\ footing_diameter_in > 0 /\ loadC > 0
        \* A = 2.34 * P / (S1 * b), b = diameter / 12
        a_val == IF solve
                 THEN MulDiv(loadC, 280800, s1 * footing_diameter_in)
                 ELSE 0
        \* d = 0.5 * A * (1 + sqrt(1 + 4.36 * h / A)), h = height / 2
        d_min == IF solve
                 THEN MulDiv(a_val,
                             1000000 + Sqrt6(1000000
                                 + MulDiv(2180000 * height_ft, 1000000, a_val)),
                             2000000)
                 ELSE d_ft
        d_req == Mul6(d_min, SqrtRequiredSF)
        ratio == IF d_min > 0 THEN MulDiv(d_ft, 1000000, d_min) ELSE 0
        sf    == IF d_min > 0 THEN Mul6(ratio, ratio) ELSE 999000000
        m_ot  == loadC * height_ft
    IN  [overturning_moment_ft_lb |-> RoundDiv(m_ot, 20),
         resisting_moment_ft_lb   |-> IF m_ot > 0
                                      THEN RoundDiv(MulDiv(m_ot, sf, 1000000), 20)
                                      ELSE 0,
         safety_factor       |-> RoundDiv(sf, 10000),
         footing_ok          |-> sf >= RequiredSF,
         min_embedment_ft    |-> RoundDiv(d_req, 10000),
         actual_embedment_ft |-> RoundDiv(d_ft, 10000),
         footing_diameter_in |-> footing_diameter_in,
         concrete_volume_cf  |-> RoundDiv(
             MulDiv(footing_diameter_in * footing_diameter_in * embedment_depth_in,
                    Pi6, 6912), 1000)]

(***************************************************************************)
(* Manufacturer spacing tables on disk (post_catalog.py)                   *)
(***************************************************************************)

\* str.upper() on the group column of a table row.
UpperGroup(s) ==
    CASE s = "ia_reg"    -> "IA_REG"
      [] s = "ia_high"   -> "IA_HIGH"
      [] s = "ic_pipe"   -> "IC_PIPE"
      [] s = "ii_cshape" -> "II_CSHAPE"
      [] OTHER           -> s

\* The parse result of a missing or empty file: one empty map per group.
EmptyTables ==
    [IA_REG |-> <<>>, IA_HIGH |-> <<>>, IC_PIPE |-> <<>>, II_CSHAPE |-> <<>>]

\* _load_ws_tables, row loop: a row is <<group, label, cells>> with cells the
\* map height (ft) -> spacing (hundredths of ft) of its filled columns.  Rows
\* of an unknown group or without a value are skipped; a repeated label is
\* updated in place.
RECURSIVE ParseRows(_, _, _)
ParseRows(rows, i, tables) ==
    IF i > Len(rows) THEN tables
    ELSE LET group == UpperGroup(rows[i][1])
             label == rows[i][2]
             cells == rows[i][3]
         IN  IF group \notin DOMAIN EmptyTables \/ DOMAIN cells = {}
             THEN ParseRows(rows, i + 1, tables)
             ELSE LET old == IF label \in DOMAIN tables[group]
                             THEN tables[group][label] ELSE <<>>
                      new == (label :> (cells @@ old)) @@ tables[group]
                  IN  ParseRows(rows, i + 1, [tables EXCEPT ![group] = new])

\* The body of _load_ws_tables: the file of the key is parsed (absent
\* file: empty tables).
_load_ws_tables_body(ws_mph, files) ==
    IF ws_mph \in DOMAIN files
    THEN ParseRows(files[ws_mph], 1, EmptyTables)
    ELSE EmptyTables

\* _load_ws_tables behind its lru_cache: a cached key is answered from the
\* cache, a new key is parsed from its file.
_load_ws_tables(ws_mph, cache, files) ==
    IF ws_mph \in DOMAIN cache THEN cache[ws_mph]
    ELSE _load_ws_tables_body(ws_mph, files)

\* maxsize of the lru_cache on _load_ws_tables.
LruMaxSize == 32

\* lru_cache, a hit: the key becomes the most recently used one.  order
\* lists the cached keys, least recently used first.
LruTouch(order, ws_mph) ==
    SelectSeq(order, LAMBDA k : k /= ws_mph) \o <<ws_mph>>

\* lru_cache storing a result with every insertion pushing out the least
\* recently used key, as if the cache were always full.
LruStore_AlwaysEvicts(cache, order, ws_mph, result) ==
    IF ws_mph \in DOMAIN cache
    THEN [cache |-> cache, order |-> order, inserted |-> FALSE]
    ELSE IF Len(order) = 0
    THEN [cache |-> (ws_mph :> result) @@ cache,
          order |-> Append(order, ws_mph), inserted |-> TRUE]
    ELSE [cache |-> (ws_mph :> result)
                    @@ [k \in DOMAIN cache \ {order[1]} |-> cache[k]],
          order |-> Append(Tail(order), ws_mph), inserted |-> TRUE]

\* lru_cache, after the wrapped function has returned result for a missed
\* key: a key stored meanwhile by another caller is left as it is; else the
\* result is stored as the most recently used entry, in place of the least
\* recently used one when the cache is full.
LruStore(cache, order, ws_mph, result) ==
    IF ws_mph \in DOMAIN cache
    THEN [cache |-> cache, order |-> order, inserted |-> FALSE]
    ELSE IF Len(order) < LruMaxSize
    THEN [cache |-> (ws_mph :> result) @@ cache,
          order |-> Append(order, ws_mph), inserted |-> TRUE]
    ELSE [cache |-> (ws_mph :> result)
                    @@ [k \in DOMAIN cache \ {order[1]} |-> cache[k]],
          order |-> Append(Tail(order), ws_mph), inserted |-> TRUE]

\* sorted(...) of a set of integers.
RECURSIVE Sorted(_)
Sorted(S) ==
    IF S = {} THEN <<>>
    ELSE LET m == CHOOSE x \in S : \A y \in S : x <= y
         IN  <<m>> \o Sorted(S \ {m})

\* compute_max_spacing_from_tables: the spacing (hundredths of ft) tabulated
\* for the post at the first table speed >= the wind speed and the first
\* tabulated height >= the fence height, or None; with the table key it
\* asked _load_ws_tables for.
compute_max_spacing_from_tables(post_key, wind_speed_mph, height_ft, avail, cache, files) ==
    LET post == POST_TYPES[post_key]
    IN  IF ~Truthy(post.table_label) \/ Len(avail) = 0
        THEN [spacing |-> NoNum, loaded |-> {}]
        ELSE LET ws_candidates == SelectSeq(avail, LAMBDA ws : ws >= wind_speed_mph)
                 ws_use == IF Len(ws_candidates) = 0 THEN avail[Len(avail)]
                           ELSE ws_candidates[1]
                 all_tables   == _load_ws_tables(ws_use, cache, files)
                 group_tables == IF post.group \in DOMAIN all_tables
                                 THEN all_tables[post.group] ELSE <<>>
                 row     == IF post.table_label \in DOMAIN group_tables
                            THEN group_tables[post.table_label] ELSE <<>>
                 heights == Sorted(DOMAIN row)
                 above   == SelectSeq(heights, LAMBDA h : h >= height_ft)
                 chosen_h == IF Len(above) = 0 THEN heights[Len(heights)]
                             ELSE above[1]
             IN  [spacing |-> IF DOMAIN row = {} THEN NoNum ELSE Some(row[chosen_h]),
                  loaded  |-> {ws_use}]

(***************************************************************************)
(* Engine (engine.py): override normalisation and member selection         *)
(***************************************************************************)

\* Legacy display strings -> catalog key.
_LEGACY_POST_SIZE_TO_KEY ==
    "2-3/8\" SS40 (Line Post)" :> "2_3_8_SS40" @@
    "2-7/8\" SS40 (Line Post)" :> "2_7_8_SS40" @@
    "3-1/2\" SS40 (Line Post)" :> "3_1_2_SS40" @@
    "1 7/8\" Steel Pipe" :> "1_7_8_PIPE" @@
    "2 3/8\" Steel Pipe" :> "2_3_8_SS40" @@
    "2 7/8\" Steel Pipe" :> "2_7_8_SS40" @@
    "3 1/2\" Steel Pipe" :> "3_1_2_SS40" @@
    "4\" Steel Pipe" :> "4_0_PIPE" @@
    "6 5/8\" Steel Pipe" :> "6_5_8_PIPE" @@
    "8 5/8\" Steel Pipe" :> "8_5_8_PIPE" @@
    "1 7/8\" x 1 5/8\" x .105\" C-Shape" :> "C_1_7_8_X_1_5_8_X_105" @@
    "1 7/8\" x 1 5/8\" x .121\" C-Shape" :> "C_1_7_8_X_1_5_8_X_121" @@
    "2 1/4\" x 1 5/8\" x .121\" C-Shape" :> "C_2_1_4_X_1_5_8_X_121" @@
    "3 1/4\" x 2 1/2\" x .130\" C-Shape" :> "C_3_1_4_X_2_1_2_X_130" @@
    "1 7/8\" x 1 5/8\" x 0.105\" C-Shape" :> "C_1_7_8_X_1_5_8_X_105" @@
    "1 7/8\" x 1 5/8\" x 0.121\" C-Shape" :> "C_1_7_8_X_1_5_8_X_121" @@
    "2 1/4\" x 1 5/8\" x 0.121\" C-Shape" :> "C_2_1_4_X_1_5_8_X_121" @@
    "3 1/4\" x 2 1/2\" x 0.130\" C-Shape" :> "C_3_1_4_X_2_1_2_X_130" @@
    "1-7/8\" Steel Pipe" :> "1_7_8_PIPE" @@
    "2-3/8\" Steel Pipe" :> "2_3_8_SS40" @@
    "2-7/8\" Steel Pipe" :> "2_7_8_SS40" @@
    "3-1/2\" Steel Pipe" :> "3_1_2_SS40" @@
    "4.0\" Steel Pipe" :> "4_0_PIPE" @@
    "6-5/8\" Steel Pipe" :> "6_5_8_PIPE" @@
    "8-5/8\" Steel Pipe" :> "8_5_8_PIPE"

\* Catalog label -> key, derived from POST_TYPES.
_LABEL_TO_KEY ==
    [l \in {POST_TYPES[k].label : k \in DOMAIN POST_TYPES} |->
        CHOOSE k \in DOMAIN POST_TYPES : POST_TYPES[k].label = l]

\* _normalize_post_key handing an unrecognised label back as the key,
\* without the diagnostic.
_normalize_post_key_PassThrough(post_size) ==
    [key |-> post_size, warned |-> FALSE]

\* _normalize_post_key: a display string to a catalog key or None, with the
\* "unknown label" warning when no map knows the string.
_normalize_post_key(post_size) ==
    IF ~Truthy(post_size) THEN [key |-> None, warned |-> FALSE]
    ELSE IF post_size \in DOMAIN POST_TYPES THEN [key |-> post_size, warned |-> FALSE]
    ELSE LET normalized ==
                 IF post_size \in DOMAIN _LABEL_TO_KEY
                    /\ Truthy(_LABEL_TO_KEY[post_size])
                 THEN _LABEL_TO_KEY[post_size]
                 ELSE IF post_size \in DOMAIN _LEGACY_POST_SIZE_TO_KEY
                 THEN _LEGACY_POST_SIZE_TO_KEY[post_size]
                 ELSE None
         IN  [key |-> normalized, warned |-> ~Truthy(normalized)]

\* _build_recommendation after the catalog lookup: label and footing of the
\* key post_key whose catalog record is post.  A cataloged post without
\* footing data raises under strict_footing and otherwise warns and uses the
\* default for the missing figure.
_build_recommendation_post(post, post_key, source_label, strict_footing) ==
    LET label   == OrElse(source_label, post.label)
        missing == IsNone(post.footing_diameter_in)
                   \/ IsNone(post.footing_embedment_in)
    IN  [rec |-> [post_key |-> post_key, post_label |-> label,
                  post_size |-> label,
                  footing_diameter_in |->
                      IF TruthyNum(post.footing_diameter_in)
                      THEN Val(post.footing_diameter_in) ELSE 12,
                  embedment_in |->
                      IF TruthyNum(post.footing_embedment_in)
                      THEN Val(post.footing_embedment_in) ELSE 30],
         raised |-> missing /\ strict_footing,
         warned |-> missing /\ ~strict_footing]

\* _build_recommendation: label and footing of a key.  A key outside the
\* catalog gets the default footing 12 in x 30 in; a cataloged key is
\* answered from its record.
_build_recommendation(post_key, source_label, strict_footing) ==
    IF post_key \notin DOMAIN POST_TYPES
    THEN [rec |-> [post_key |-> post_key,
                   post_label |-> OrElse(source_label, post_key),
                   post_size  |-> OrElse(source_label, post_key),
                   footing_diameter_in |-> 12, embedment_in |-> 30],
          raised |-> FALSE, warned |-> FALSE]
    ELSE _build_recommendation_post(POST_TYPES[post_key], post_key, source_label,
                                    strict_footing)

\* _build_recommendation_for_post_key answering every manual key with the
\* default footing instead of the catalog footing.
_build_recommendation_for_post_key_DefaultFooting(post_key, strict_footing) ==
    LET label == IF post_key \in DOMAIN POST_TYPES
                 THEN POST_TYPES[post_key].label ELSE post_key
    IN  [rec |-> [post_key |-> post_key, post_label |-> label, post_size |-> label,
                  footing_diameter_in |-> 12, embedment_in |-> 30],
         raised |-> FALSE, warned |-> FALSE]

\* _build_recommendation_for_post_key: the manual path; the label is the
\* catalog label, or the key itself when the key is not cataloged.
_build_recommendation_for_post_key(post_key, strict_footing) ==
    LET label == IF post_key \in DOMAIN POST_TYPES
                 THEN POST_TYPES[post_key].label ELSE post_key
    IN  _build_recommendation(post_key, label, strict_footing)

\* The selection loop run from the largest pipe down: index of the last
\* pipe whose bending check passes, 0 when none passes.
RECURSIVE FirstAdequate_FromLargest(_, _, _)
FirstAdequate_FromLargest(i, loadC, height_ft) ==
    LET j == Len(_PIPE_POSTS_BY_SIZE) + 1 - i
    IN  IF j < 1 THEN 0
        ELSE IF compute_moment_check(_PIPE_POSTS_BY_SIZE[j], height_ft, loadC).ok THEN j
        ELSE FirstAdequate_FromLargest(i + 1, loadC, height_ft)

\* The loop of _recommend_auto_by_capacity: index of the first pipe from i on
\* whose bending check passes, 0 when the list is exhausted.
RECURSIVE FirstAdequate(_, _, _)
FirstAdequate(i, loadC, height_ft) ==
    IF i > Len(_PIPE_POSTS_BY_SIZE) THEN 0
    ELSE IF compute_moment_check(_PIPE_POSTS_BY_SIZE[i], height_ft, loadC).ok THEN i
    ELSE FirstAdequate(i + 1, loadC, height_ft)

\* _recommend_auto_by_capacity falling back to the largest pipe without the
\* logger warning.
_recommend_auto_by_capacity_Silent(loadC, height_ft, strict_footing) ==
    LET i   == FirstAdequate(1, loadC, height_ft)
        key == IF i > 0 THEN _PIPE_POSTS_BY_SIZE[i]
               ELSE _PIPE_POSTS_BY_SIZE[Len(_PIPE_POSTS_BY_SIZE)]
        r   == _build_recommendation(key, None, strict_footing)
    IN  [rec |-> r.rec, raised |-> r.raised, warned |-> r.warned, logged |-> FALSE]

\* _recommend_auto_by_capacity: first adequate pipe; when none is adequate
\* the largest pipe, with the logger warning (logged).
_recommend_auto_by_capacity(loadC, height_ft, strict_footing) ==
    LET i   == FirstAdequate(1, loadC, height_ft)
        key == IF i > 0 THEN _PIPE_POSTS_BY_SIZE[i]
               ELSE _PIPE_POSTS_BY_SIZE[Len(_PIPE_POSTS_BY_SIZE)]
        r   == _build_recommendation(key, None, strict_footing)
    IN  [rec |-> r.rec, raised |-> r.raised, warned |-> r.warned,
         logged |-> i = 0]

\* _build_warnings: the four input-level advisories, in order.
_build_warnings(data, pressureC, loadC) ==
    (IF data.height_total_ft > 12 THEN <<"height">> ELSE <<>>)
    \o (IF data.wind_speed_mph > 150 THEN <<"wind_speed">> ELSE <<>>)
    \o (IF pressureC > 6000 THEN <<"pressure">> ELSE <<>>)
    \o (IF loadC > 200000 THEN <<"post_load">> ELSE <<>>)

\* EstimateInput.aspect_ratio_bs: fence length / height in millionths, or
\* None when the length is not given.
aspect_ratio_bs(data) ==
    IF TruthyNum(data.fence_length_ft) /\ data.height_total_ft > 0
    THEN Some(Div6(Val(data.fence_length_ft), data.height_total_ft))
    ELSE NoNum

\* _assumptions, the list: the notes that carry figures of the request or of
\* its design pressure dp, then the nine fixed notes.  The B/s note gives
\* the aspect ratio to one decimal when a run length is given.
_assumptions_list(data, solidity, kzt, dp, aspect) ==
    << <<"V", data.wind_speed_mph>>,
       <<"qz", dp.qz_psf>>,
       <<"Kz", RoundDiv(dp.kz, 10), data.exposure, data.height_total_ft>>,
       <<"Kd", KD_FENCE>>,
       <<"Kzt", dp.kzt, kzt > 1000000>>,
       <<"G", G_RIGID>>,
       <<"Cf", dp.cf, data.fence_type, RoundDiv(solidity, 10000),
         IF ~IsNone(aspect)
         THEN <<RoundDiv(Val(aspect), 100000), Val(data.fence_length_ft),
                data.height_total_ft>>
         ELSE <<>> >>,
       <<"uniform_pressure">>, <<"tributary_load">>, <<"bending_demand">>,
       <<"allowable_bending">>, <<"deflection_check">>, <<"footing_check">>,
       <<"pipe_posts">>, <<"terminal_cantilever">>, <<"status_bands">> >>

\* _assumptions: the design pressure is computed again from the request and
\* the notes are built from it.
_assumptions_dp(data, solidity, kzt) ==
    _assumptions_list(data, solidity, kzt,
        compute_design_pressure(data.wind_speed_mph, data.height_total_ft,
            data.exposure, solidity, kzt, aspect_ratio_bs(data)),
        aspect_ratio_bs(data))

\* _assumptions: the assumption notes of a request.
_assumptions(data) ==
    _assumptions_dp(data,
        IF data.fence_type \in DOMAIN FENCE_TYPES
        THEN FENCE_TYPES[data.fence_type] ELSE 1000000,
        IF data.kzt /= 0 THEN data.kzt ELSE 1000000)

(***************************************************************************)
(* Engine (engine.py): per-role block and the estimate                     *)
(***************************************************************************)

\* BlockStatus with the role test of the bending tier left out: bending
\* escalates line blocks too.
BlockStatus_AnyRole(role, spacing_ratio, moment_ratio) ==
    LET spacing_status ==
            IF ~IsNone(spacing_ratio) /\ Val(spacing_ratio) > 1000 THEN "RED"
            ELSE IF ~IsNone(spacing_ratio) /\ Val(spacing_ratio) > 850 THEN "YELLOW"
            ELSE "GREEN"
    IN  IF ~IsNone(moment_ratio)
        THEN IF Val(moment_ratio) > 1000 THEN "RED"
             ELSE IF Val(moment_ratio) > 800 /\ spacing_status /= "RED" THEN "YELLOW"
             ELSE spacing_status
        ELSE spacing_status

\* BlockStatus with the "not already RED" test left out: a terminal bending
\* ratio in (0.80, 1.0] overwrites a RED set by spacing.
BlockStatus_BendingOverwrites(role, spacing_ratio, moment_ratio) ==
    LET spacing_status ==
            IF ~IsNone(spacing_ratio) /\ Val(spacing_ratio) > 1000 THEN "RED"
            ELSE IF ~IsNone(spacing_ratio) /\ Val(spacing_ratio) > 850 THEN "YELLOW"
            ELSE "GREEN"
    IN  IF role = "terminal" /\ ~IsNone(moment_ratio)
        THEN IF Val(moment_ratio) > 1000 THEN "RED"
             ELSE IF Val(moment_ratio) > 800 THEN "YELLOW"
             ELSE spacing_status
        ELSE spacing_status

\* BlockStatus with the spacing tiers compared with >= 1.15 / > 1.0 instead
\* of > 1.0 / > 0.85.
BlockStatus_ShiftedBand(role, spacing_ratio, moment_ratio) ==
    LET spacing_status ==
            IF ~IsNone(spacing_ratio) /\ Val(spacing_ratio) > 1150 THEN "RED"
            ELSE IF ~IsNone(spacing_ratio) /\ Val(spacing_ratio) > 1000 THEN "YELLOW"
            ELSE "GREEN"
    IN  IF role = "terminal" /\ ~IsNone(moment_ratio)
        THEN IF Val(moment_ratio) > 1000 THEN "RED"
             ELSE IF Val(moment_ratio) > 800 /\ spacing_status /= "RED" THEN "YELLOW"
             ELSE spacing_status
        ELSE spacing_status

\* The status logic of _compute_block (YELLOW band): spacing tier first, then
\* the terminal bending tier, which only ever raises the status.
BlockStatus(role, spacing_ratio, moment_ratio) ==
    LET spacing_status ==
            IF ~IsNone(spacing_ratio) /\ Val(spacing_ratio) > 1000 THEN "RED"
            ELSE IF ~IsNone(spacing_ratio) /\ Val(spacing_ratio) > 850 THEN "YELLOW"
            ELSE "GREEN"
    IN  IF role = "terminal" /\ ~IsNone(moment_ratio)
        THEN IF Val(moment_ratio) > 1000 THEN "RED"
             ELSE IF Val(moment_ratio) > 800 /\ spacing_status /= "RED" THEN "YELLOW"
             ELSE spacing_status
        ELSE spacing_status

\* _compute_block, last part, with a failed footing or deflection check
\* turning the block RED.
_compute_block_result_FailuresEscalate(role, loadC, data, pressureC, sel, effective_key, checked, tbl, cfs, mc, fc, dc) ==
    LET recommended == sel.rec
        from_cf  == checked /\ IsNone(tbl.spacing)
        max_spacing_ft == IF ~checked THEN NoNum
                          ELSE IF ~IsNone(tbl.spacing) THEN tbl.spacing
                          ELSE Some(RoundDiv(cfs.s_max, 10000))
        defl     == [deflection_in |-> dc.deflection_in,
                     allowable_in  |-> dc.allowable_in,
                     deflection_ok |-> dc.ok,
                     ratio |-> IF dc.allowable_in > 0
                               THEN Round3(dc.deflection_in, dc.allowable_in) ELSE 0]
        spacing_ratio == IF ~IsNone(max_spacing_ft) /\ Val(max_spacing_ft) > 0
                         THEN Some(Round3(data.post_spacing_ft, Val(max_spacing_ft)))
                         ELSE NoNum
        moment_ratio  == IF checked /\ mc.M_allow > 0
                         THEN Some(Round3(mc.M_demand, mc.M_allow))
                         ELSE NoNum
        warnings_list ==
            _build_warnings(data, pressureC, loadC)
            \o (IF checked /\ data.post_spacing_ft > Val(max_spacing_ft)
                THEN <<"spacing">> ELSE <<>>)
            \o (IF checked /\ ~fc.footing_ok THEN <<"footing">> ELSE <<>>)
            \o (IF checked /\ ~dc.ok THEN <<"deflection">> ELSE <<>>)
            \o (IF role = "terminal" /\ ~IsNone(moment_ratio)
                   /\ Val(moment_ratio) > 1000
                THEN <<"terminal_bending">> ELSE <<>>)
    IN  [block |->
            [post_key       |-> effective_key,
             post_label     |-> recommended.post_label,
             recommended    |-> recommended,
             warnings       |-> warnings_list,
             assumptions    |-> _assumptions(data),
             max_spacing_ft |-> max_spacing_ft,
             M_demand_ft_lb |-> IF checked THEN Some(RoundDiv(mc.M_demand, 120))
                                ELSE NoNum,
             M_allow_ft_lb  |-> IF checked THEN Some(RoundDiv(mc.M_allow, 120))
                                ELSE NoNum,
             moment_ok      |-> IF checked THEN Some(mc.ok) ELSE NoNum,
             spacing_ratio  |-> spacing_ratio,
             moment_ratio   |-> moment_ratio,
             footing        |-> IF checked THEN Some(fc) ELSE NoNum,
             deflection     |-> IF checked THEN Some(defl) ELSE NoNum,
             status         |-> IF checked /\ (~fc.footing_ok \/ ~dc.ok) THEN "RED"
                                ELSE BlockStatus(role, spacing_ratio, moment_ratio)],
         log |-> (IF sel.logged THEN {"no_adequate_pipe"} ELSE {})
                 \cup (IF sel.warned THEN {"footing_data_missing"} ELSE {})
                 \cup (IF from_cf /\ cfs.warned THEN {"cf1_out_of_range"} ELSE {}),
         loaded |-> IF checked THEN tbl.loaded ELSE {},
         raised |-> sel.raised]

\* _compute_block, closing part: the utilization ratios, the warnings, the
\* status and the BlockResult, from the selection sel, the key, whether the
\* key is cataloged (checked) and the results of the checks run on it: table
\* spacing tbl, Cf spacing cfs, moment check mc, footing check fc and
\* deflection check dc.
_compute_block_result(role, loadC, data, pressureC, sel, effective_key, checked, tbl, cfs, mc, fc, dc) ==
    LET recommended == sel.rec
        from_cf  == checked /\ IsNone(tbl.spacing)
        max_spacing_ft == IF ~checked THEN NoNum
                          ELSE IF ~IsNone(tbl.spacing) THEN tbl.spacing
                          ELSE Some(RoundDiv(cfs.s_max, 10000))
        defl     == [deflection_in |-> dc.deflection_in,
                     allowable_in  |-> dc.allowable_in,
                     deflection_ok |-> dc.ok,
                     ratio |-> IF dc.allowable_in > 0
                               THEN Round3(dc.deflection_in, dc.allowable_in) ELSE 0]
        spacing_ratio == IF ~IsNone(max_spacing_ft) /\ Val(max_spacing_ft) > 0
                         THEN Some(Round3(data.post_spacing_ft, Val(max_spacing_ft)))
                         ELSE NoNum
        moment_ratio  == IF checked /\ mc.M_allow > 0
                         THEN Some(Round3(mc.M_demand, mc.M_allow))
                         ELSE NoNum
        warnings_list ==
            _build_warnings(data, pressureC, loadC)
            \o (IF checked /\ data.post_spacing_ft > Val(max_spacing_ft)
                THEN <<"spacing">> ELSE <<>>)
            \o (IF checked /\ ~fc.footing_ok THEN <<"footing">> ELSE <<>>)
            \o (IF checked /\ ~dc.ok THEN <<"deflection">> ELSE <<>>)
            \o (IF role = "terminal" /\ ~IsNone(moment_ratio)
                   /\ Val(moment_ratio) > 1000
                THEN <<"terminal_bending">> ELSE <<>>)
    IN  [block |->
            [post_key       |-> effective_key,
             post_label     |-> recommended.post_label,
             recommended    |-> recommended,
             warnings       |-> warnings_list,
             assumptions    |-> _assumptions(data),
             max_spacing_ft |-> max_spacing_ft,
             M_demand_ft_lb |-> IF checked THEN Some(RoundDiv(mc.M_demand, 120))
                                ELSE NoNum,
             M_allow_ft_lb  |-> IF checked THEN Some(RoundDiv(mc.M_allow, 120))
                                ELSE NoNum,
             moment_ok      |-> IF checked THEN Some(mc.ok) ELSE NoNum,
             spacing_ratio  |-> spacing_ratio,
             moment_ratio   |-> moment_ratio,
             footing        |-> IF checked THEN Some(fc) ELSE NoNum,
             deflection     |-> IF checked THEN Some(defl) ELSE NoNum,
             status         |-> BlockStatus(role, spacing_ratio, moment_ratio)],
         log |-> (IF sel.logged THEN {"no_adequate_pipe"} ELSE {})
                 \cup (IF sel.warned THEN {"footing_data_missing"} ELSE {})
                 \cup (IF from_cf /\ cfs.warned THEN {"cf1_out_of_range"} ELSE {}),
         loaded |-> IF checked THEN tbl.loaded ELSE {},
         raised |-> sel.raised]

\* _compute_block, middle part: the key in effect and the spacing, bending,
\* footing and deflection checks, which the code runs when the key is
\* cataloged.  The footing check takes the request's overrides before the
\* recommended footing.
_compute_block_checks(role, post_key, loadC, data, pressureC, env, sel) ==
    LET effective_key == IF Truthy(post_key) THEN post_key ELSE sel.rec.post_key
        embed_in == IF TruthyNum(data.embedment_depth_in)
                    THEN Val(data.embedment_depth_in) ELSE sel.rec.embedment_in
        footing_dia_in == IF TruthyNum(data.footing_diameter_in)
                          THEN Val(data.footing_diameter_in)
                          ELSE sel.rec.footing_diameter_in
    IN  _compute_block_result(role, loadC, data, pressureC, sel, effective_key,
            Truthy(effective_key) /\ effective_key \in DOMAIN POST_TYPES,
            compute_max_spacing_from_tables(effective_key, data.wind_speed_mph,
                data.height_total_ft, env.avail, env.cache, env.files),
            compute_max_spacing_cf(effective_key, data.wind_speed_mph, data.exposure),
            compute_moment_check(effective_key, data.height_total_ft, loadC),
            compute_footing_check(loadC, data.height_total_ft, footing_dia_in,
                embed_in, OrElse(data.soil_type, "default")),
            compute_deflection_check(effective_key, data.height_total_ft, loadC))

\* _compute_block running the capacity search whatever key is given, so
\* that an override is replaced by the auto-selected member.
_compute_block_SearchAlways(role, post_key, loadC, data, pressureC, env) ==
    _compute_block_checks(role, None, loadC, data, pressureC, env,
        _recommend_auto_by_capacity(loadC, data.height_total_ft,
                                    env.strict_footing))

\* _compute_block: select the member (a truthy key is used as given, else
\* auto-selection by capacity), then run the checks and build the result.
\* env carries the settings and the spacing-table state.  Returns the
\* BlockResult with the diagnostics emitted, the table keys loaded and
\* whether the call raised.
_compute_block(role, post_key, loadC, data, pressureC, env) ==
    _compute_block_checks(role, post_key, loadC, data, pressureC, env,
        IF Truthy(post_key)
        THEN _build_recommendation_for_post_key(post_key, env.strict_footing)
             @@ [logged |-> FALSE]
        ELSE _recommend_auto_by_capacity(loadC, data.height_total_ft,
                                         env.strict_footing))

(***************************************************************************)
(* Quantity takeoff (quantities.py)                                        *)
(***************************************************************************)

\* _concrete_volume_cf: pi * (d / 24)^2 * (depth / 12), in millionths of cf.
_concrete_volume_cf(diameter_in, depth_in) ==
    MulDiv(diameter_in * diameter_in * depth_in, Pi6, 6912)

\* compute_segment_quantities: post counts, concrete, rail and fabric of one
\* run.  Lengths in ft, spacing in hundredths of ft; footing overrides are
\* optional inches.  Keys are looked up in the catalog as given.
compute_segment_quantities(fence_length_ft, height_ft, post_spacing_ft, line_post_key, terminal_post_key, num_terminals, num_corners, num_gates, embedment_override_in, footing_diameter_override_in) ==
    LET total_bays    == Max(RoundDiv(fence_length_ft * 100, post_spacing_ft), 1)
        special_posts == num_terminals + num_corners + num_gates
        num_line      == Max(total_bays - 1, 0)
        has_line == Truthy(line_post_key) /\ line_post_key \in DOMAIN POST_TYPES
        has_term == Truthy(terminal_post_key)
                    /\ terminal_post_key \in DOMAIN POST_TYPES
        line_footing_dia ==
            IF TruthyNum(footing_diameter_override_in)
            THEN Val(footing_diameter_override_in)
            ELSE IF has_line THEN Val(POST_TYPES[line_post_key].footing_diameter_in)
            ELSE 10
        line_embed ==
            IF TruthyNum(embedment_override_in) THEN Val(embedment_override_in)
            ELSE IF has_line THEN Val(POST_TYPES[line_post_key].footing_embedment_in)
            ELSE 24
        term_footing_dia ==
            IF TruthyNum(footing_diameter_override_in)
            THEN Val(footing_diameter_override_in)
            ELSE IF has_term
            THEN Val(POST_TYPES[terminal_post_key].footing_diameter_in)
            ELSE 16
        term_embed ==
            IF TruthyNum(embedment_override_in) THEN Val(embedment_override_in)
            ELSE IF has_term
            THEN Val(POST_TYPES[terminal_post_key].footing_embedment_in)
            ELSE 36
        concrete_line  == _concrete_volume_cf(line_footing_dia, line_embed)
        concrete_term  == _concrete_volume_cf(term_footing_dia, term_embed)
        total_concrete == num_line * concrete_line + special_posts * concrete_term
    IN  [fence_length_ft    |-> fence_length_ft,
         num_line_posts     |-> num_line,
         num_terminal_posts |-> num_terminals,
         num_corner_posts   |-> num_corners,
         num_gate_posts     |-> num_gates,
         total_posts        |-> num_line + special_posts,
         top_rail_lf        |-> fence_length_ft,
         fabric_sf          |-> fence_length_ft * height_ft,
         concrete_per_line_cf     |-> RoundDiv(concrete_line, 1000),
         concrete_per_terminal_cf |-> RoundDiv(concrete_term, 1000),
         total_concrete_cf  |-> RoundDiv(total_concrete, 10000),
         total_concrete_cy  |-> RoundDiv(total_concrete, 270000),
         line_post_length_ft     |-> RoundDiv(height_ft * 1200 + line_embed * 100, 12),
         terminal_post_length_ft |-> RoundDiv(height_ft * 1200 + term_embed * 100, 12)]

(***************************************************************************)
(* Engine (engine.py): calculate                                           *)
(***************************************************************************)

\* str.lower() on the override strings an estimate can carry.
Lower(s) ==
    CASE s = "AUTO"        -> "auto"
      [] s = "Auto"        -> "auto"
      [] s = "Recommended" -> "recommended"
      [] s = "2_3_8_SS40"  -> "2_3_8_ss40"
      [] s = "8_5_8_PIPE"  -> "8_5_8_pipe"
      [] s = "C_1_7_8_X_1_5_8_X_105" -> "c_1_7_8_x_1_5_8_x_105"
      [] s = "NOT_A_POST"  -> "not_a_post"
      [] OTHER             -> s

\* OverallStatus taken from the line block alone, as the legacy top-level
\* fields are.
OverallStatus_LineOnly(line_status, terminal_status) == line_status

\* The worst of the two block statuses.
OverallStatus(line_status, terminal_status) ==
    IF line_status = "RED" \/ terminal_status = "RED" THEN "RED"
    ELSE IF line_status = "YELLOW" \/ terminal_status = "YELLOW" THEN "YELLOW"
    ELSE "GREEN"

\* calculate, closing part: the overall status, the takeoff when a run
\* length is given, and the EstimateOutput with its legacy top-level view of
\* the line block.  unknown_label tells that a legacy post_size was not
\* recognised.
calculate_output(data, shared, line_post_key, terminal_post_key, unknown_label, lb, tb) ==
    LET quantities ==
            IF TruthyNum(data.fence_length_ft) /\ Val(data.fence_length_ft) > 0
            THEN Some(compute_segment_quantities(Val(data.fence_length_ft),
                          data.height_total_ft, data.post_spacing_ft, line_post_key,
                          terminal_post_key, 2, data.num_corners, data.num_gates * 2,
                          data.embedment_depth_in, data.footing_diameter_in))
            ELSE NoNum
    IN  [out |->
            [shared           |-> shared,
             line             |-> lb.block,
             terminal         |-> tb.block,
             overall_status   |-> OverallStatus(lb.block.status, tb.block.status),
             quantities       |-> quantities,
             pressure_psf     |-> shared.pressure_psf,
             area_per_bay_ft2 |-> shared.area_per_bay_ft2,
             total_load_lb    |-> shared.total_load_lb,
             load_per_post_lb |-> shared.load_per_post_lb,
             recommended      |-> lb.block.recommended,
             warnings         |-> lb.block.warnings \o tb.block.warnings,
             assumptions      |-> lb.block.assumptions,
             max_spacing_ft   |-> lb.block.max_spacing_ft,
             M_demand_ft_lb   |-> lb.block.M_demand_ft_lb,
             M_allow_ft_lb    |-> lb.block.M_allow_ft_lb],
         log    |-> lb.log \cup tb.log
                    \cup (IF unknown_label THEN {"unknown_post_label"} ELSE {}),
         loaded |-> lb.loaded \cup tb.loaded,
         raised |-> lb.raised \/ tb.raised]

\* calculate, the terminal block: computed after the line block lb, with the
\* spacing tables the line block loaded already in the cache.
calculate_terminal(data, env, shared, line_post_key, terminal_post_key, unknown_label, lb) ==
    calculate_output(data, shared, line_post_key, terminal_post_key, unknown_label, lb,
        _compute_block("terminal", terminal_post_key, shared.load_per_post_lb, data,
            shared.pressure_psf,
            [env EXCEPT !.cache =
                [ws \in lb.loaded |-> _load_ws_tables(ws, env.cache, env.files)]
                @@ env.cache]))

\* calculate, from the design pressure dp: the bay load, the override
\* resolution (the deprecated post_key unless it is a placeholder, else the
\* legacy post_size; a per-role key is taken as given when truthy), the
\* shared result and the line block.
calculate_blocks(data, env, dp) ==
    LET pressure_psf     == dp.design_pressure_psf
        area             == data.height_total_ft * data.post_spacing_ft
        total_load_lb    == RoundDiv(pressure_psf * area, 100)
        load_per_post_lb == RoundDiv(total_load_lb, 2)
        _raw_key == data.post_key
        from_key == IF Truthy(_raw_key)
                       /\ Lower(_raw_key) \notin {"auto", "recommended", ""}
                    THEN _raw_key ELSE None
        norm     == _normalize_post_key(data.post_size)
        use_size == ~Truthy(from_key) /\ Truthy(data.post_size)
        effective_post_key == IF use_size THEN norm.key ELSE from_key
        line_post_key      == OrElse(data.line_post_key, effective_post_key)
        terminal_post_key  == OrElse(data.terminal_post_key, effective_post_key)
        shared == [pressure_psf     |-> pressure_psf,
                   area_per_bay_ft2 |-> area,
                   total_load_lb    |-> total_load_lb,
                   load_per_post_lb |-> load_per_post_lb,
                   design_params    |-> [kz |-> dp.kz, kzt |-> dp.kzt, kd |-> KD_FENCE,
                                         g |-> G_RIGID, cf_solid |-> dp.cf_solid,
                                         cf |-> dp.cf, solidity |-> dp.solidity,
                                         fence_type |-> data.fence_type,
                                         qz_psf |-> dp.qz_psf]]
    IN  calculate_terminal(data, env, shared, line_post_key, terminal_post_key,
            use_size /\ norm.warned,
            _compute_block("line", line_post_key, load_per_post_lb, data,
                           pressure_psf, env))

\* calculate: design pressure, bay load, override resolution, the two
\* blocks, the overall status, the takeoff and the legacy view.  Returns the
\* EstimateOutput with the diagnostics emitted, the table keys loaded and
\* whether the call raised.
calculate(data, env) ==
    LET solidity == IF data.fence_type \in DOMAIN FENCE_TYPES
                    THEN FENCE_TYPES[data.fence_type] ELSE 1000000
        kzt == IF data.kzt /= 0 THEN data.kzt ELSE 1000000
    IN  calculate_blocks(data, env,
            compute_design_pressure(data.wind_speed_mph, data.height_total_ft,
                data.exposure, solidity, kzt, aspect_ratio_bs(data)))

(***************************************************************************)
(* Risk classifier (risk.py)                                               *)
(***************************************************************************)

\* Utilization thresholds of risk.py, in thousandths.
_YELLOW_THRESHOLD == 850
_RED_THRESHOLD == 1000

\* A ratio in thousandths printed as a whole percentage ("{ratio * 100:.0f}").
Percent(ratio) == RoundDiv(ratio, 10)

\* A message of classify_risk: the text template, the role it names and the
\* three numbers printed into it, as printed.
RiskMessage(template, role_name, a, b, c) == <<template, role_name, a, b, c>>

\* The ratio classify_risk uses when the block carries none: the quotient of
\* the two moments, kept in thousandths.
RiskMomentRatio(block) ==
    IF IsNone(block.moment_ratio) /\ TruthyNum(block.M_demand_ft_lb)
       /\ TruthyNum(block.M_allow_ft_lb)
    THEN Some(Round3(Val(block.M_demand_ft_lb), Val(block.M_allow_ft_lb)))
    ELSE block.moment_ratio

\* classify_risk, line spacing section: the ratio in the details and the
\* spacing reason.
RiskSpacing(o, d) ==
    IF ~TruthyNum(o.line.max_spacing_ft)
    THEN [ratio |-> NoNum, reasons |-> <<>>]
    ELSE LET spacing_ratio ==
                 IF IsNone(o.line.spacing_ratio)
                 THEN Round3(d.post_spacing_ft, Val(o.line.max_spacing_ft))
                 ELSE Val(o.line.spacing_ratio)
             pct == Percent(spacing_ratio)
             max_ft == Val(o.line.max_spacing_ft)
         IN  [ratio |-> Some(spacing_ratio),
              reasons |->
                 IF spacing_ratio > _RED_THRESHOLD
                 THEN <<RiskMessage("Line spacing at", "Line", pct,
                                    d.post_spacing_ft, max_ft)>>
                 ELSE IF spacing_ratio > _YELLOW_THRESHOLD
                 THEN <<RiskMessage("Line spacing near limit at", "Line", pct,
                                    d.post_spacing_ft, max_ft)>>
                 ELSE <<>>]

\* classify_risk, bending sections: the message about one block's bending
\* utilization, if it has an allowable moment and a ratio.
RiskBending(block, template, role_name) ==
    IF TruthyNum(block.M_allow_ft_lb) /\ ~IsNone(RiskMomentRatio(block))
    THEN <<RiskMessage(template, role_name, Percent(Val(RiskMomentRatio(block))),
                       Val(block.M_demand_ft_lb), Val(block.M_allow_ft_lb))>>
    ELSE <<>>

\* The footing section with the second test not chained to the first: a
\* failing footing is then reported in both lists.
RiskFooting_Unchained(block, role_name) ==
    IF IsNone(block.footing) THEN [reasons |-> <<>>, advanced |-> <<>>]
    ELSE LET f == Val(block.footing)
         IN  [reasons |->
                 IF ~f.footing_ok
                 THEN <<RiskMessage("footing SF (need >= 1.50)", role_name,
                                    f.safety_factor,
                                    RoundDiv(f.min_embedment_ft, 10), 0)>>
                 ELSE <<>>,
              advanced |->
                 IF f.safety_factor < 200
                 THEN <<RiskMessage("footing SF (adequate but marginal)",
                                    role_name, f.safety_factor, 0, 0)>>
                 ELSE <<>>]

\* classify_risk, footing section for one role: a failing footing is a
\* reason, a passing one below 2.0 an advanced reason.
RiskFooting(block, role_name) ==
    IF IsNone(block.footing) THEN [reasons |-> <<>>, advanced |-> <<>>]
    ELSE LET f == Val(block.footing)
         IN  IF ~f.footing_ok
             THEN [reasons |-> <<RiskMessage("footing SF (need >= 1.50)", role_name,
                                             f.safety_factor,
                                             RoundDiv(f.min_embedment_ft, 10), 0)>>,
                   advanced |-> <<>>]
             ELSE IF f.safety_factor < 200
             THEN [reasons |-> <<>>,
                   advanced |-> <<RiskMessage("footing SF (adequate but marginal)",
                                              role_name, f.safety_factor, 0, 0)>>]
             ELSE [reasons |-> <<>>, advanced |-> <<>>]

\* classify_risk, deflection section for one role.
RiskDeflection(block, role_name) ==
    IF ~IsNone(block.deflection) /\ ~Val(block.deflection).deflection_ok
    THEN <<RiskMessage("deflection exceeds L/60 limit", role_name,
                       RoundDiv(Val(block.deflection).deflection_in, 10),
                       RoundDiv(Val(block.deflection).allowable_in, 10), 0)>>
    ELSE <<>>

\* classify_risk(out, data): the status is the engine's overall status; the
\* details carry the line spacing figures, the terminal bending ratio and the
\* two message lists, each built in the order of the code's sections.
classify_risk(o, d) ==
    LET has_spacing == TruthyNum(o.line.max_spacing_ft)
        has_bending == TruthyNum(o.terminal.M_allow_ft_lb)
    IN  [status |-> o.overall_status,
         reasons |-> RiskSpacing(o, d).reasons
                     \o RiskBending(o.terminal, "Terminal bending utilization", "Terminal")
                     \o RiskFooting(o.line, "Line").reasons
                     \o RiskFooting(o.terminal, "Terminal").reasons,
         advanced_reasons |->
                     RiskBending(o.line,
                         "Advisory - Simplified cantilever bending check (conservative)",
                         "Line")
                     \o RiskFooting(o.line, "Line").advanced
                     \o RiskFooting(o.terminal, "Terminal").advanced
                     \o RiskDeflection(o.line, "Line")
                     \o RiskDeflection(o.terminal, "Terminal"),
         line_spacing_ratio     |-> RiskSpacing(o, d).ratio,
         line_max_spacing_ft    |-> IF has_spacing THEN o.line.max_spacing_ft ELSE NoNum,
         terminal_bending_ratio |-> IF has_bending THEN RiskMomentRatio(o.terminal)
                                    ELSE NoNum]

(***************************************************************************)
(* Requests                                                                *)
(***************************************************************************)

\* Sizes of the request domain: how many wind speeds (mph), heights (ft) and
\* post spacings (hundredths of ft) of the lists below a request draws from.
NumWindSpeeds == 2
NumHeights == 2
NumSpacings == 3

WindSpeedChoices == <<120, 150, 105, 160, 90>>
HeightChoices == <<8, 20, 6, 16, 24>>
SpacingChoices == <<1000, 1656, 1250, 600, 800>>

\* Site options: soil class, footing overrides, run length, gates, corners
\* and topographic factor.
SiteChoices ==
    {[soil_type |-> None, embedment_depth_in |-> NoNum,
      footing_diameter_in |-> NoNum, fence_length_ft |-> NoNum,
      num_gates |-> 0, num_corners |-> 0, kzt |-> 1000000],
     [soil_type |-> "clay", embedment_depth_in |-> Some(48),
      footing_diameter_in |-> Some(18), fence_length_ft |-> Some(100),
      num_gates |-> 1, num_corners |-> 2, kzt |-> 1200000]}

\* The first n entries of a choice list.
Prefix(seq, n) == {seq[i] : i \in 1..(IF n <= Len(seq) THEN n ELSE Len(seq))}

\* Per-role override strings: absent, the placeholders, a pipe, a C-shape
\* and a string that is not a catalog key.
RoleKeyChoices ==
    {None, "", "auto", "recommended", "2_3_8_SS40", "C_1_7_8_X_1_5_8_X_105",
     "NOT_A_POST"}

\* Deprecated single-key override strings.
PostKeyChoices == {None, "", "auto", "AUTO", "recommended", "8_5_8_PIPE"}

\* Legacy display strings: empty, a catalog label, a legacy label and an
\* unknown label.
PostSizeChoices == {"", "2-3/8\" SS40", "4\" Steel Pipe", "Unknown post"}

NoOverride ==
    [line_post_key |-> None, terminal_post_key |-> None, post_key |-> None,
     post_size |-> None]

\* Override combinations: a line key alone or beside a terminal pipe, a
\* terminal key alone, the deprecated key alone, a legacy string alone or
\* beside the "auto" key, and a line key together with the deprecated pair.
OverrideChoices ==
    {[NoOverride EXCEPT !.line_post_key = l, !.terminal_post_key = t] :
        l \in RoleKeyChoices, t \in {None, "2_3_8_SS40"}}
    \cup {[NoOverride EXCEPT !.terminal_post_key = t] : t \in RoleKeyChoices}
    \cup {[NoOverride EXCEPT !.post_key = k] : k \in PostKeyChoices}
    \cup {[NoOverride EXCEPT !.post_key = k, !.post_size = s] :
             k \in {None, "auto"}, s \in PostSizeChoices}
    \cup {[NoOverride EXCEPT !.line_post_key = "2_3_8_SS40", !.post_key = k,
                             !.post_size = "4\" Steel Pipe"] :
             k \in {None, "auto", "8_5_8_PIPE"}}

\* The EstimateInput values a request can carry.
Inputs ==
    {[wind_speed_mph |-> w, height_total_ft |-> h, post_spacing_ft |-> s,
      exposure |-> e, fence_type |-> f] @@ site @@ ov :
        w \in Prefix(WindSpeedChoices, NumWindSpeeds),
        h \in Prefix(HeightChoices, NumHeights),
        s \in Prefix(SpacingChoices, NumSpacings),
        e \in {"B", "C", "D"},
        f \in {"chain_link_open", "solid_panel"},
        site \in SiteChoices,
        ov \in OverrideChoices}

\* Spacing-table directories the installation can have: none (the package
\* as shipped carries no table files) or two files of rows
\* <<group, label, height -> spacing>>.
NoTableFiles == <<>>

SampleTableFiles ==
    110 :> << <<"IC_PIPE", "2 3/8\"", (6 :> 1000 @@ 8 :> 800)>>,
              <<"ic_pipe", "2 7/8\"", (8 :> 1100 @@ 12 :> 900)>>,
              <<"IC_PIPE", "2 3/8\"", (8 :> 750 @@ 10 :> 600)>>,
              <<"OTHER", "2 3/8\"", (6 :> 100)>>,
              <<"IC_PIPE", "4\"", <<>> >> >>
    @@
    130 :> << <<"IC_PIPE", "2 3/8\"", (6 :> 800 @@ 8 :> 650)>>,
              <<"IC_PIPE", "8 5/8\"", (8 :> 1200 @@ 20 :> 1000)>> >>

TableFileChoices == {NoTableFiles, SampleTableFiles}

(***************************************************************************)
(* State machine                                                           *)
(***************************************************************************)

VARIABLES
    strict_footing,   \* settings.strict_footing
    files,            \* TABLE_DIR: wind speed -> rows of <ws>mph.csv
    _AVAILABLE_WS,    \* table speeds found at import, ascending
    ws_cache,         \* lru_cache of _load_ws_tables: key -> parsed tables
    data,             \* the EstimateInput of the current request, or <<>>
    out,              \* its EstimateOutput, or <<>>
    risk,             \* the classify_risk result for out, or <<>>
    prev,             \* the request and result a pinned request came from
    diagnostics,      \* warnings and log records emitted so far
    pc                \* "idle", "done", "classified" or "error"

vars == <<strict_footing, files, _AVAILABLE_WS, ws_cache, data, out, risk, prev,
          diagnostics, pc>>

Env ==
    [strict_footing |-> strict_footing, avail |-> _AVAILABLE_WS,
     cache |-> ws_cache, files |-> files]

Init ==
    /\ strict_footing = FALSE
    /\ files \in TableFileChoices
    /\ _AVAILABLE_WS = Sorted(DOMAIN files)
    /\ ws_cache = <<>>
    /\ data = <<>>
    /\ out = <<>>
    /\ risk = <<>>
    /\ prev = <<>>
    /\ diagnostics = {}
    /\ pc = "idle"

\* The effect of one calculate(d) call on the state.
Run(d) ==
    \E r \in {calculate(d, Env)} :
        /\ data' = d
        /\ out' = IF r.raised THEN <<>> ELSE r.out
        /\ pc' = IF r.raised THEN "error" ELSE "done"
        /\ risk' = <<>>
        /\ diagnostics' = diagnostics \cup r.log
        /\ ws_cache' = [ws \in r.loaded |-> _load_ws_tables(ws, ws_cache, files)]
                       @@ ws_cache
        /\ UNCHANGED <<strict_footing, files, _AVAILABLE_WS>>

\* A request arrives and calculate runs on it.
Calculate ==
    /\ pc = "idle"
    /\ \E d \in Inputs : Run(d)
    /\ prev' = prev

\* The caller classifies the output.
ClassifyRisk ==
    /\ pc = "done"
    /\ risk' = classify_risk(out, [post_spacing_ft |-> data.post_spacing_ft])
    /\ pc' = "classified"
    /\ UNCHANGED <<strict_footing, files, _AVAILABLE_WS, ws_cache, data, out, prev,
                   diagnostics>>

\* A request without overrides is sent again with the member that was
\* auto-selected for one role pinned as that role's override.
PinRecommended ==
    /\ pc \in {"done", "classified"}
    /\ prev = <<>>
    /\ ~Truthy(data.line_post_key) /\ ~Truthy(data.terminal_post_key)
    /\ ~Truthy(data.post_key) /\ ~Truthy(data.post_size)
    /\ \E role \in {"line", "terminal"} :
         /\ prev' = [role |-> role, data |-> data, out |-> out]
         /\ Run(IF role = "line"
                THEN [data EXCEPT !.line_post_key = out.line.post_key]
                ELSE [data EXCEPT !.terminal_post_key = out.terminal.post_key])

Next == Calculate \/ ClassifyRisk \/ PinRecommended

Spec == Init /\ [][Next]_vars

(***************************************************************************)
(* Auto-selection on its own: one call of _recommend_auto_by_capacity on a *)
(* load per post and a height.  data holds the arguments and out the       *)
(* returned Recommendation.                                                *)
(***************************************************************************)

\* Loads per post are multiples of LoadStep (hundredths of lb), up to
\* NumLoads steps.
LoadStep == 5000
NumLoads == 300

SelectInputs ==
    {[load_per_post_lb |-> i * LoadStep, height_ft |-> h] :
        i \in 0..NumLoads, h \in Prefix(HeightChoices, NumHeights)}

InitSelect ==
    /\ strict_footing = FALSE
    /\ files = NoTableFiles
    /\ _AVAILABLE_WS = Sorted(DOMAIN files)
    /\ ws_cache = <<>>
    /\ data \in SelectInputs
    /\ out = <<>>
    /\ risk = <<>>
    /\ prev = <<>>
    /\ diagnostics = {}
    /\ pc = "idle"

\* _recommend_auto_by_capacity runs on the arguments.
AutoSelect ==
    /\ pc = "idle"
    /\ \E r \in {_recommend_auto_by_capacity(data.load_per_post_lb, data.height_ft,
                                             strict_footing)} :
         /\ out' = IF r.raised THEN <<>> ELSE r.rec
         /\ pc' = IF r.raised THEN "error" ELSE "done"
         /\ diagnostics' = diagnostics
                \cup (IF r.logged THEN {"no_adequate_pipe"} ELSE {})
                \cup (IF r.warned THEN {"footing_data_missing"} ELSE {})
    /\ UNCHANGED <<strict_footing, files, _AVAILABLE_WS, ws_cache, data, risk, prev>>

NextSelect == AutoSelect

SpecSelect == InitSelect /\ [][NextSelect]_vars

(***************************************************************************)
(***************************************************************************)
(* _build_recommendation on its own: one call on a catalog record whose    *)
(* footing figures may be missing, under either setting of strict_footing. *)
(* data holds the record, its key and the source label, out the returned   *)
(* Recommendation.                                                         *)
(***************************************************************************)

\* Footing diameters and embedments of a record, in inches; the first entry
\* is a missing figure.
NumFootings == 4
FootingDiameterChoices == <<NoNum, Some(16), Some(12), Some(24), Some(30), Some(18)>>
FootingEmbedmentChoices == <<NoNum, Some(42), Some(30), Some(36), Some(48), Some(54)>>

\* Catalog records with their footing figures replaced.
RecordInputs ==
    {[post |-> [POST_TYPES[k] EXCEPT !.footing_diameter_in = fd,
                                     !.footing_embedment_in = fe],
      post_key |-> k, source_label |-> sl] :
        k  \in {"2_3_8_SS40", "8_5_8_PIPE", "C_1_7_8_X_1_5_8_X_105"},
        fd \in Prefix(FootingDiameterChoices, NumFootings),
        fe \in Prefix(FootingEmbedmentChoices, NumFootings),
        sl \in {None, "4\" Steel Pipe"}}

InitFooting ==
    /\ strict_footing \in BOOLEAN
    /\ files = NoTableFiles
    /\ _AVAILABLE_WS = Sorted(DOMAIN files)
    /\ ws_cache = <<>>
    /\ data \in RecordInputs
    /\ out = <<>>
    /\ risk = <<>>
    /\ prev = <<>>
    /\ diagnostics = {}
    /\ pc = "idle"

\* _build_recommendation is called on the record and returns or raises.
BuildRecommendation ==
    /\ pc = "idle"
    /\ \E r \in {_build_recommendation_post(data.post, data.post_key,
                                            data.source_label, strict_footing)} :
        /\ out' = IF r.raised THEN <<>> ELSE r.rec
        /\ pc' = IF r.raised THEN "error" ELSE "done"
        /\ diagnostics' = diagnostics
                \cup (IF r.warned THEN {"footing_data_missing"} ELSE {})
    /\ UNCHANGED <<strict_footing, files, _AVAILABLE_WS, ws_cache, data, risk, prev>>

NextFooting == BuildRecommendation

SpecFooting == InitFooting /\ [][NextFooting]_vars

(***************************************************************************)
(* compute_segment_quantities on its own: one call on a run length, a      *)
(* height, a spacing and the special-post counts.  data holds the          *)
(* arguments and out the returned SegmentQuantities.                       *)
(***************************************************************************)

\* Run lengths are the whole feet up to MaxLength.
MaxLength == 200

QuantityInputs ==
    {[fence_length_ft |-> len, height_ft |-> h, post_spacing_ft |-> s,
      num_terminals |-> t, num_corners |-> c, num_gates |-> g] :
        len \in 1..MaxLength, h \in Prefix(HeightChoices, 1),
        s \in Prefix(SpacingChoices, NumSpacings),
        t \in {2, 1}, c \in {0, 3}, g \in {0, 2}}

InitQuantities ==
    /\ strict_footing = FALSE
    /\ files = NoTableFiles
    /\ _AVAILABLE_WS = Sorted(DOMAIN files)
    /\ ws_cache = <<>>
    /\ data \in QuantityInputs
    /\ out = <<>>
    /\ risk = <<>>
    /\ prev = <<>>
    /\ diagnostics = {}
    /\ pc = "idle"

\* compute_segment_quantities is called with no member keys and no footing
\* overrides and returns.
Quantify ==
    /\ pc = "idle"
    /\ out' = compute_segment_quantities(data.fence_length_ft, data.height_ft,
                  data.post_spacing_ft, None, None, data.num_terminals,
                  data.num_corners, data.num_gates, NoNum, NoNum)
    /\ pc' = "done"
    /\ UNCHANGED <<strict_footing, files, _AVAILABLE_WS, ws_cache, data, risk, prev,
                   diagnostics>>

NextQuantities == Quantify

SpecQuantities == InitQuantities /\ [][NextQuantities]_vars

(***************************************************************************)
(* Engine (engine.py): calculate_project.  One step per segment of the     *)
(* loop, then the return.  data holds the ProjectInput; out holds the      *)
(* function's locals while the loop runs (pc = "loop") and the             *)
(* ProjectOutput once it has returned (pc = "done").                       *)
(***************************************************************************)

\* The EstimateInput built for one segment from the shared wind and footing
\* parameters of the project.
SegmentEstimateInput(project, seg) ==
    [wind_speed_mph      |-> project.wind_speed_mph,
     height_total_ft     |-> seg.height_total_ft,
     post_spacing_ft     |-> seg.post_spacing_ft,
     fence_length_ft     |-> Some(seg.fence_length_ft),
     exposure            |-> project.exposure,
     fence_type          |-> seg.fence_type,
     kzt                 |-> project.kzt,
     soil_type           |-> project.soil_type,
     embedment_depth_in  |-> project.embedment_depth_in,
     footing_diameter_in |-> project.footing_diameter_in,
     line_post_key       |-> seg.line_post_key,
     terminal_post_key   |-> seg.terminal_post_key,
     num_gates           |-> seg.num_gates,
     num_corners         |-> seg.num_corners,
     post_key            |-> None,
     post_size           |-> None]

\* The status aggregation that takes the status of the latest segment.
AggregateStatus_LastWins(worst_status, overall_status) == overall_status

\* The status aggregation of the loop: RED sticks, YELLOW replaces GREEN.
AggregateStatus(worst_status, overall_status) ==
    IF overall_status = "RED" THEN "RED"
    ELSE IF overall_status = "YELLOW" /\ worst_status /= "RED" THEN "YELLOW"
    ELSE worst_status

\* The running sums before the first segment.
ZeroSums ==
    [_line |-> 0, _term |-> 0, _corner |-> 0, _gate |-> 0, _posts |-> 0,
     _rail |-> 0, _fabric |-> 0, _concrete |-> 0, _length |-> 0]

\* The quantity aggregation that leaves the gate posts out of the post total.
AggregateQuantities_GatesUncounted(sums, q) ==
    [_line     |-> sums._line + q.num_line_posts,
     _term     |-> sums._term + q.num_terminal_posts,
     _corner   |-> sums._corner + q.num_corner_posts,
     _gate     |-> sums._gate + q.num_gate_posts,
     _posts    |-> sums._posts + q.total_posts - q.num_gate_posts,
     _rail     |-> sums._rail + q.top_rail_lf,
     _fabric   |-> sums._fabric + q.fabric_sf,
     _concrete |-> sums._concrete + q.total_concrete_cf,
     _length   |-> sums._length + q.fence_length_ft]

\* The quantity aggregation of the loop: each running sum takes the
\* segment's figure.
AggregateQuantities(sums, q) ==
    [_line     |-> sums._line + q.num_line_posts,
     _term     |-> sums._term + q.num_terminal_posts,
     _corner   |-> sums._corner + q.num_corner_posts,
     _gate     |-> sums._gate + q.num_gate_posts,
     _posts    |-> sums._posts + q.total_posts,
     _rail     |-> sums._rail + q.top_rail_lf,
     _fabric   |-> sums._fabric + q.fabric_sf,
     _concrete |-> sums._concrete + q.total_concrete_cf,
     _length   |-> sums._length + q.fence_length_ft]

\* The QuantitiesResult built from the running sums.  Concrete is in
\* hundredths; cubic yards are derived from the summed cubic feet, and the
\* post lengths keep the default of the schema.
TotalQuantities(sums) ==
    [fence_length_ft    |-> sums._length,
     num_line_posts     |-> sums._line,
     num_terminal_posts |-> sums._term,
     num_corner_posts   |-> sums._corner,
     num_gate_posts     |-> sums._gate,
     total_posts        |-> sums._posts,
     top_rail_lf        |-> sums._rail,
     fabric_sf          |-> sums._fabric,
     total_concrete_cf  |-> sums._concrete,
     total_concrete_cy  |-> RoundDiv(sums._concrete, 27),
     line_post_length_ft     |-> 0,
     terminal_post_length_ft |-> 0]

\* Segments of a project: label, geometry, member overrides and special
\* posts.
SegmentChoices ==
    {[label |-> "North Run", height_total_ft |-> 8, post_spacing_ft |-> 800,
      fence_length_ft |-> 200, fence_type |-> "chain_link_open",
      line_post_key |-> None, terminal_post_key |-> None,
      num_terminals |-> 2, num_gates |-> 0,
      num_corners |-> 0],
     [label |-> "South Run", height_total_ft |-> 8, post_spacing_ft |-> 1000,
      fence_length_ft |-> 150, fence_type |-> "chain_link_open",
      line_post_key |-> None, terminal_post_key |-> None,
      num_terminals |-> 2, num_gates |-> 1,
      num_corners |-> 0],
     [label |-> "East Run", height_total_ft |-> 8, post_spacing_ft |-> 1250,
      fence_length_ft |-> 100, fence_type |-> "chain_link_open",
      line_post_key |-> "2_3_8_SS40", terminal_post_key |-> None,
      num_terminals |-> 3, num_gates |-> 0,
      num_corners |-> 2],
     [label |-> "Yard", height_total_ft |-> 6, post_spacing_ft |-> 1250,
      fence_length_ft |-> 75, fence_type |-> "chain_link_open",
      line_post_key |-> "2_3_8_SS40", terminal_post_key |-> None,
      num_terminals |-> 1, num_gates |-> 1,
      num_corners |-> 2]}

\* A project has between one and MaxSegments segments.
MaxSegments == 3

SegmentLists == UNION {[1..n -> SegmentChoices] : n \in 1..MaxSegments}

ProjectInputs ==
    {[wind_speed_mph |-> w, exposure |-> "C", kzt |-> 1000000, soil_type |-> None,
      embedment_depth_in |-> NoNum, footing_diameter_in |-> NoNum,
      segments |-> segs] :
        w \in Prefix(WindSpeedChoices, NumWindSpeeds), segs \in SegmentLists}

\* calculate_project has been called and stands before its loop.
InitProject ==
    /\ strict_footing = FALSE
    /\ files = NoTableFiles
    /\ _AVAILABLE_WS = Sorted(DOMAIN files)
    /\ ws_cache = <<>>
    /\ data \in ProjectInputs
    /\ out = [segment_outputs |-> <<>>, worst_status |-> "GREEN", sums |-> ZeroSums]
    /\ risk = <<>>
    /\ prev = <<>>
    /\ diagnostics = {}
    /\ pc = "loop"

\* One iteration of the loop: the next segment is calculated, its output is
\* appended, and status and quantities are aggregated.
FoldSegment ==
    /\ pc = "loop"
    /\ Len(out.segment_outputs) < Len(data.segments)
    /\ \E seg \in {data.segments[Len(out.segment_outputs) + 1]} :
       \E r \in {calculate(SegmentEstimateInput(data, seg), Env)} :
        /\ ~r.raised
        /\ out' = [segment_outputs |->
                       Append(out.segment_outputs,
                              [label |-> seg.label, estimate |-> r.out,
                               quantities |-> r.out.quantities]),
                   worst_status |->
                       AggregateStatus(out.worst_status, r.out.overall_status),
                   sums |-> IF ~IsNone(r.out.quantities)
                            THEN AggregateQuantities(out.sums, Val(r.out.quantities))
                            ELSE out.sums]
        /\ diagnostics' = diagnostics \cup r.log
    /\ UNCHANGED <<strict_footing, files, _AVAILABLE_WS, ws_cache, data, risk, prev, pc>>

\* After the last segment the ProjectOutput is built and returned.
ReturnProject ==
    /\ pc = "loop"
    /\ Len(out.segment_outputs) = Len(data.segments)
    /\ out' = [segments |-> out.segment_outputs,
               overall_status |-> out.worst_status,
               total_quantities |-> Some(TotalQuantities(out.sums))]
    /\ pc' = "done"
    /\ UNCHANGED <<strict_footing, files, _AVAILABLE_WS, ws_cache, data, risk, prev,
                   diagnostics>>

NextProject == FoldSegment \/ ReturnProject

SpecProject == InitProject /\ [][NextProject]_vars

(***************************************************************************)
(* The lru_cache of _load_ws_tables under two concurrent callers           *)
(* (request threads).  A call looks the key up; on a miss the caller runs  *)
(* the function body, during which the other caller may run, and then      *)
(* stores the result unless the key has been stored meanwhile.             *)
(*   ws_cache     the cache's dictionary, key -> parsed tables             *)
(*   prev         its recency list, least recently used key first          *)
(*   data         sweep: how many keys have been asked for so far;         *)
(*                ws: the key of each caller's call in progress            *)
(*   pc           each caller's position, "idle" or "loading"              *)
(*   out          the values returned so far, key -> set of values         *)
(*   diagnostics  the log: <<"stored", key, n>> for the n-th insertion of  *)
(*                key, <<"not_stored", 0, 0>> once a result was returned   *)
(*                without being stored because its key had been stored     *)
(*                meanwhile                                                *)
(***************************************************************************)

\* The table directory holds NumTableFiles files, for 85 mph upwards in
\* steps of 5 mph, each with one row.
NumTableFiles == 33

CacheTableFiles ==
    [ws \in {80 + 5 * i : i \in 1..NumTableFiles} |->
        << <<"IC_PIPE", "2 3/8\"", (6 :> 2000 - 5 * ws)>> >>]

\* The first caller asks for the table speeds in ascending order, starting
\* over after the last, SweepExtra keys beyond one full round; it may ask
\* for a key again.  The second caller asks for the key the first caller
\* asked for last.
SweepExtra == 2

Callers == {1, 2}

\* The key at position i of the sweep.
SweepKey(i) == _AVAILABLE_WS[((i - 1) % Len(_AVAILABLE_WS)) + 1]

\* How often key ws_mph has been inserted into the cache.
Populations(ws_mph) ==
    Cardinality({e \in diagnostics : e[1] = "stored" /\ e[2] = ws_mph})

\* The values returned so far, with value added for key ws_mph.
Returned(ws_mph, value) ==
    (ws_mph :> ((IF ws_mph \in DOMAIN out THEN out[ws_mph] ELSE {}) \cup {value}))
    @@ out

InitCache ==
    /\ strict_footing = FALSE
    /\ files = CacheTableFiles
    /\ _AVAILABLE_WS = Sorted(DOMAIN files)
    /\ ws_cache = <<>>
    /\ data = [sweep |-> 0, ws |-> [c \in Callers |-> 0]]
    /\ out = <<>>
    /\ risk = <<>>
    /\ prev = <<>>
    /\ diagnostics = {}
    /\ pc = [c \in Callers |-> "idle"]

\* Caller c calls _load_ws_tables: on a hit the cached value is returned and
\* the key becomes the most recently used; on a miss the caller goes on to
\* run the function body.
Lookup(c) ==
    /\ pc[c] = "idle"
    /\ \E i \in (IF c = 1 THEN {data.sweep, data.sweep + 1} ELSE {data.sweep}) :
        /\ i >= 1
        /\ i <= NumTableFiles + SweepExtra
        /\ IF SweepKey(i) \in DOMAIN ws_cache
           THEN /\ prev' = LruTouch(prev, SweepKey(i))
                /\ out' = Returned(SweepKey(i), ws_cache[SweepKey(i)])
                /\ data' = [data EXCEPT !.sweep = i]
                /\ pc' = pc
           ELSE /\ data' = [data EXCEPT !.sweep = i, !.ws[c] = SweepKey(i)]
                /\ pc' = [pc EXCEPT ![c] = "loading"]
                /\ UNCHANGED <<prev, out>>
    /\ UNCHANGED <<strict_footing, files, _AVAILABLE_WS, ws_cache, risk, diagnostics>>

\* Caller c finishes the function body and the wrapper stores and returns
\* the result.
Load(c) ==
    /\ pc[c] = "loading"
    /\ \E st \in {LruStore(ws_cache, prev, data.ws[c],
                           _load_ws_tables_body(data.ws[c], files))} :
        /\ ws_cache' = st.cache
        /\ prev' = st.order
        /\ diagnostics' = diagnostics
              \cup (IF st.inserted
                    THEN {<<"stored", data.ws[c], Populations(data.ws[c]) + 1>>}
                    ELSE {<<"not_stored", 0, 0>>})
    /\ out' = Returned(data.ws[c], _load_ws_tables_body(data.ws[c], files))
    /\ pc' = [pc EXCEPT ![c] = "idle"]
    /\ data' = [data EXCEPT !.ws[c] = 0]
    /\ UNCHANGED <<strict_footing, files, _AVAILABLE_WS, risk>>

NextCache == (\E c \in Callers : Lookup(c)) \/ (\E c \in Callers : Load(c))

SpecCache == InitCache /\ [][NextCache]_vars

(***************************************************************************)
(* compute_cf_solid on its own: one call on an aspect ratio B/s.  data     *)
(* holds the argument (None when no run length is known) and out the       *)
(* returned coefficient in millionths.                                     *)
(***************************************************************************)

\* Aspect ratios are the multiples of 0.5 below NumAspects / 2.
NumAspects == 101

AspectInputs == {NoNum} \cup {Some(i * 500000) : i \in 0..(NumAspects - 1)}

InitCf ==
    /\ strict_footing = FALSE
    /\ files = NoTableFiles
    /\ _AVAILABLE_WS = Sorted(DOMAIN files)
    /\ ws_cache = <<>>
    /\ data \in AspectInputs
    /\ out = <<>>
    /\ risk = <<>>
    /\ prev = <<>>
    /\ diagnostics = {}
    /\ pc = "idle"

\* compute_cf_solid is called on the aspect ratio and returns.
ComputeCfSolid ==
    /\ pc = "idle"
    /\ out' = Some(compute_cf_solid(data))
    /\ pc' = "done"
    /\ UNCHANGED <<strict_footing, files, _AVAILABLE_WS, ws_cache, data, risk, prev,
                   diagnostics>>

NextCf == ComputeCfSolid

SpecCf == InitCf /\ [][NextCf]_vars

(***************************************************************************)
(* get_cf1 on its own: one call on a post group and a wind speed.  data    *)
(* holds the arguments, out the returned factor in 1e-4 units, and         *)
(* diagnostics the warning the call emitted, if any.                       *)
(***************************************************************************)

\* Wind speeds are the whole mph from 95 up, NumCf1Speeds of them.
NumCf1Speeds == 56

Cf1Inputs ==
    {[group |-> g, wind_speed_mph |-> 94 + i] :
        g \in DOMAIN CF1_TABLE, i \in 1..NumCf1Speeds}

InitCf1 ==
    /\ strict_footing = FALSE
    /\ files = NoTableFiles
    /\ _AVAILABLE_WS = Sorted(DOMAIN files)
    /\ ws_cache = <<>>
    /\ data \in Cf1Inputs
    /\ out = <<>>
    /\ risk = <<>>
    /\ prev = <<>>
    /\ diagnostics = {}
    /\ pc = "idle"

\* get_cf1 is called on the group and the wind speed and returns.
GetCf1 ==
    /\ pc = "idle"
    /\ \E r \in {get_cf1(data.group, data.wind_speed_mph)} :
        /\ out' = Some(r.cf1)
        /\ diagnostics' = diagnostics
                \cup (IF r.warned THEN {"cf1_out_of_range"} ELSE {})
    /\ pc' = "done"
    /\ UNCHANGED <<strict_footing, files, _AVAILABLE_WS, ws_cache, data, risk, prev>>

NextCf1 == GetCf1

SpecCf1 == InitCf1 /\ [][NextCf1]_vars

(***************************************************************************)
(* calculate on requests for a fence run at the edge of the spacing limit: *)
(* 120 mph, a run length given, no footing override, and post spacings     *)
(* within a few hundredths of a foot of the 24.00 ft that the fallback     *)
(* formula allows a 10 ft base spacing in exposure B.  The variables are   *)
(* those of Spec.                                                          *)
(***************************************************************************)

\* Post spacings are 23.99 ft and the next hundredths, NumEdgeSpacings of
\* them.
NumEdgeSpacings == 5

SiteInputs ==
    {[wind_speed_mph |-> 120, height_total_ft |-> h, post_spacing_ft |-> 2398 + i,
      exposure |-> e, fence_type |-> "chain_link_open", soil_type |-> None,
      embedment_depth_in |-> NoNum, footing_diameter_in |-> NoNum,
      fence_length_ft |-> Some(len), num_gates |-> g, num_corners |-> 0,
      kzt |-> 1000000] @@ ov :
        h \in {6, 8}, i \in 1..NumEdgeSpacings, e \in {"B", "C"},
        len \in {100, 250}, g \in {0, 1},
        ov \in {NoOverride,
                [NoOverride EXCEPT !.line_post_key = "2_7_8_SS40"],
                [NoOverride EXCEPT !.line_post_key = "2_7_8_SS40",
                                   !.terminal_post_key = "8_5_8_PIPE"]}}

InitSite ==
    /\ strict_footing = FALSE
    /\ files = NoTableFiles
    /\ _AVAILABLE_WS = Sorted(DOMAIN files)
    /\ ws_cache = <<>>
    /\ data = <<>>
    /\ out = <<>>
    /\ risk = <<>>
    /\ prev = <<>>
    /\ diagnostics = {}
    /\ pc = "idle"

\* A request arrives and calculate runs on it.
CalculateSite ==
    /\ pc = "idle"
    /\ \E d \in SiteInputs : Run(d)
    /\ prev' = prev

NextSite == CalculateSite

SpecSite == InitSite /\ [][NextSite]_vars

(***************************************************************************)
(* compute_footing_check on its own: one call on a lateral load, a height, *)
(* a footing diameter, an embedment and a soil class.  data holds the      *)
(* arguments and out the returned FootingCheckResult.                      *)
(***************************************************************************)

\* Lateral loads are 0 lb and the next multiples of 100 lb, NumFootingLoads
\* of them (in hundredths of lb).
NumFootingLoads == 3

FootingCheckInputs ==
    {[load_per_post_lb |-> (i - 1) * 10000, height_above_grade_ft |-> h,
      footing_diameter_in |-> dia, embedment_depth_in |-> emb, soil_class |-> s] :
        i \in 1..NumFootingLoads, h \in {4, 8}, dia \in {10, 12, 18},
        emb \in {24, 36, 48},
        s \in {"default", "clay", "gravel", "rock_crystalline", "peat"}}

InitFootingCheck ==
    /\ strict_footing = FALSE
    /\ files = NoTableFiles
    /\ _AVAILABLE_WS = Sorted(DOMAIN files)
    /\ ws_cache = <<>>
    /\ data \in FootingCheckInputs
    /\ out = <<>>
    /\ risk = <<>>
    /\ prev = <<>>
    /\ diagnostics = {}
    /\ pc = "idle"

\* compute_footing_check is called on the arguments and returns.
ComputeFootingCheck ==
    /\ pc = "idle"
    /\ out' = compute_footing_check(data.load_per_post_lb, data.height_above_grade_ft,
                                    data.footing_diameter_in, data.embedment_depth_in,
                                    data.soil_class)
    /\ pc' = "done"
    /\ UNCHANGED <<strict_footing, files, _AVAILABLE_WS, ws_cache, data, risk, prev,
                   diagnostics>>

NextFootingCheck == ComputeFootingCheck

SpecFootingCheck == InitFootingCheck /\ [][NextFootingCheck]_vars

(***************************************************************************)
(* Properties                                                              *)
(***************************************************************************)

\* A result is on hand.
HasOutput == out /= <<>>

\* GREEN < YELLOW < RED.
Rank(status) == CASE status = "GREEN" -> 0 [] status = "YELLOW" -> 1 [] status = "RED" -> 2

Worst(s1, s2) == IF Rank(s1) >= Rank(s2) THEN s1 ELSE s2

\* The tier of a block's reported spacing ratio (no ratio: GREEN).
SpacingTier(block) ==
    IF IsNone(block.spacing_ratio) THEN "GREEN"
    ELSE IF Val(block.spacing_ratio) > 1000 THEN "RED"
    ELSE IF Val(block.spacing_ratio) > 850 THEN "YELLOW"
    ELSE "GREEN"

\* The tier of a block's reported bending ratio (no ratio: GREEN).
BendingTier(block) ==
    IF IsNone(block.moment_ratio) THEN "GREEN"
    ELSE IF Val(block.moment_ratio) > 1000 THEN "RED"
    ELSE IF Val(block.moment_ratio) > 800 THEN "YELLOW"
    ELSE "GREEN"

\* C1: the status of the line block is its spacing tier (RED above 1.0,
\* YELLOW above 0.85, else GREEN) whatever its bending ratio is; line
\* bending never escalates the line block.
C1_LineStatusIsSpacingTier ==
    HasOutput => out.line.status = SpacingTier(out.line)

\* C1 witness: a line block over its bending capacity that is GREEN.
C1_Witness ==
    /\ HasOutput
    /\ ~IsNone(out.line.moment_ratio) /\ Val(out.line.moment_ratio) > 1000
    /\ ~IsNone(out.line.spacing_ratio) /\ Val(out.line.spacing_ratio) <= 850
    /\ out.line.status = "GREEN"

C3_SpacingRatioSetsFloor ==
    HasOutput =>
        \A b \in {out.line, out.terminal} :
            ~IsNone(b.spacing_ratio) =>
                /\ Val(b.spacing_ratio) > 1000 => b.status = "RED"
                /\ Val(b.spacing_ratio) > 850 => b.status /= "GREEN"

\* C3 witness: a line block and a terminal block whose spacing ratio is in
\* (1.0, 1.15], both RED, the terminal one not from bending.
C3_Witness ==
    /\ HasOutput
    /\ \A b \in {out.line, out.terminal} :
         /\ ~IsNone(b.spacing_ratio)
         /\ Val(b.spacing_ratio) > 1000 /\ Val(b.spacing_ratio) <= 1150
         /\ b.status = "RED"
    /\ BendingTier(out.terminal) /= "RED"

\* C4: the overall status is the worst of the two block statuses, and
\* classify_risk returns exactly that status.
C4_OverallIsWorstAndClassified ==
    HasOutput =>
        /\ out.overall_status = Worst(out.line.status, out.terminal.status)
        /\ risk /= <<>> => risk.status = Worst(out.line.status, out.terminal.status)

\* C4 witness: a classified output whose terminal block is worse than its
\* line block.
C4_Witness ==
    /\ pc = "classified"
    /\ out.line.status = "GREEN"
    /\ out.terminal.status = "RED"
    /\ risk.status = "RED"

\* The bending check of catalog member k passes for the selection arguments.
Passes(k) == compute_moment_check(k, data.height_ft, data.load_per_post_lb).ok

\* Catalog member k has section geometry, so its bending check is evaluated
\* rather than skipped.
HasGeometry(k) == ~IsNone(PostSectionModulus[k])

\* Auto-selection has returned.
Selected == pc = "done" /\ out /= <<>>

\* Position of a key in the ordered pipe list.
PipeIndex(k) == CHOOSE i \in 1..Len(_PIPE_POSTS_BY_SIZE) : _PIPE_POSTS_BY_SIZE[i] = k

\* C5 as stated: auto-selection never returns a member whose bending check
\* fails when any member of the catalog would pass it for the same load
\* and height.
C5_NeverFailingWhenAnyCatalogMemberPasses ==
    Selected => ((\E k \in DOMAIN POST_TYPES : Passes(k)) => Passes(out.post_key))

\* C5, amended: auto-selection never returns a member whose bending check
\* fails when any catalog member that has section geometry would pass it.
C5_NeverFailingWhenAnyCheckedMemberPasses ==
    Selected =>
        ((\E k \in DOMAIN POST_TYPES : HasGeometry(k) /\ Passes(k))
            => Passes(out.post_key))

\* C5 witness: only the largest pipe passes, and it is the one returned.
C5_Witness ==
    /\ Selected
    /\ \E k \in DOMAIN POST_TYPES : HasGeometry(k) /\ Passes(k)
    /\ \E k \in DOMAIN POST_TYPES : HasGeometry(k) /\ ~Passes(k)
    /\ ~Passes("6_5_8_PIPE")
    /\ Passes(out.post_key)

\* C6: when some pipe of the ordered list passes, the member returned is the
\* first that passes: it passes and every member before it fails.
C6_FirstFit ==
    Selected =>
        ((\E i \in 1..Len(_PIPE_POSTS_BY_SIZE) : Passes(_PIPE_POSTS_BY_SIZE[i])) =>
            /\ out.post_key \in {_PIPE_POSTS_BY_SIZE[i] : i \in 1..Len(_PIPE_POSTS_BY_SIZE)}
            /\ Passes(out.post_key)
            /\ \A i \in 1..(PipeIndex(out.post_key) - 1) :
                 ~Passes(_PIPE_POSTS_BY_SIZE[i]))

\* C6 witness: a member in the middle of the list is returned while a
\* smaller one fails and a larger one passes.
C6_Witness ==
    /\ Selected
    /\ out.post_key = "3_1_2_SS40"
    /\ ~Passes("2_7_8_SS40")
    /\ Passes("4_0_PIPE")

\* C7: auto-selection always returns a recommendation; when no pipe of the
\* list passes it returns the last member and logs the inadequate-capacity
\* diagnostic, without raising.
C7_FallbackToLargest ==
    pc /= "idle" =>
        /\ pc = "done" /\ out /= <<>>
        /\ (\A i \in 1..Len(_PIPE_POSTS_BY_SIZE) : ~Passes(_PIPE_POSTS_BY_SIZE[i])) =>
              /\ out.post_key = _PIPE_POSTS_BY_SIZE[Len(_PIPE_POSTS_BY_SIZE)]
              /\ "no_adequate_pipe" \in diagnostics

\* C7 witness: no pipe passes and the largest is returned with the
\* diagnostic.
C7_Witness ==
    /\ Selected
    /\ \A i \in 1..Len(_PIPE_POSTS_BY_SIZE) : ~Passes(_PIPE_POSTS_BY_SIZE[i])
    /\ out.post_key = "8_5_8_PIPE"
    /\ "no_adequate_pipe" \in diagnostics

\* Allowable moment Fy * S / 1.67 of the i-th pipe of the ordered list.
PipeCapacity(i) ==
    compute_moment_check(_PIPE_POSTS_BY_SIZE[i], data.height_ft,
                         data.load_per_post_lb).M_allow

\* C8: the allowable bending moment is strictly increasing along the
\* ordered pipe list, and passing the bending check is upward-closed along
\* it.
C8_OrderingMatchesCapacity ==
    \A i, j \in 1..Len(_PIPE_POSTS_BY_SIZE) :
        i < j =>
            /\ PipeCapacity(i) < PipeCapacity(j)
            /\ Passes(_PIPE_POSTS_BY_SIZE[i]) => Passes(_PIPE_POSTS_BY_SIZE[j])

\* C8 witness: a load that splits the list: the third pipe fails, the fourth
\* passes, and the selection has run.
C8_Witness ==
    /\ Selected
    /\ ~Passes(_PIPE_POSTS_BY_SIZE[3])
    /\ Passes(_PIPE_POSTS_BY_SIZE[4])
    /\ \A j \in 4..Len(_PIPE_POSTS_BY_SIZE) : Passes(_PIPE_POSTS_BY_SIZE[j])

\* The block of an output for a role.
BlockOf(o, role) == IF role = "line" THEN o.line ELSE o.terminal

\* C9: when the member auto-selected for a role of a request without
\* overrides is sent back as that role's explicit override, the role gets
\* the same member with the same recommended footing diameter and
\* embedment.
C9_PinnedMemberRoundTrips ==
    (prev /= <<>> /\ HasOutput) =>
        LET before == BlockOf(prev.out, prev.role)
            after  == BlockOf(out, prev.role)
        IN  /\ after.post_key = before.post_key
            /\ after.recommended.footing_diameter_in
                 = before.recommended.footing_diameter_in
            /\ after.recommended.embedment_in = before.recommended.embedment_in

\* C9 witness: the terminal member picked by auto-selection, a pipe with a
\* footing other than the default, was pinned and came back unchanged.
C9_Witness ==
    /\ prev /= <<>> /\ HasOutput
    /\ prev.role = "terminal"
    /\ ~Truthy(prev.data.terminal_post_key)
    /\ data.terminal_post_key = prev.out.terminal.post_key
    /\ out.terminal.post_key = "3_1_2_SS40"
    /\ out.terminal.recommended.footing_diameter_in = 16
    /\ out.terminal.recommended.embedment_in = 36

\* The placeholder values of a member override.
Placeholders == {"", "auto", "recommended"}

\* The members calculate selects for the request d.
SelectedMembers(d) ==
    LET r == calculate(d, Env)
    IN  <<r.out.line.post_key, r.out.terminal.post_key>>

\* C10: in each member-override input (line_post_key, terminal_post_key and
\* the deprecated post_key) a placeholder selects the same members as
\* leaving the input out, and no block names a placeholder as its member.
C10_PlaceholderMeansAuto ==
    (HasOutput /\ prev = <<>>) =>
        /\ out.line.post_key \notin Placeholders
        /\ out.terminal.post_key \notin Placeholders
        /\ data.line_post_key \in Placeholders =>
             <<out.line.post_key, out.terminal.post_key>>
               = SelectedMembers([data EXCEPT !.line_post_key = None])
        /\ data.terminal_post_key \in Placeholders =>
             <<out.line.post_key, out.terminal.post_key>>
               = SelectedMembers([data EXCEPT !.terminal_post_key = None])
        /\ data.post_key \in Placeholders =>
             <<out.line.post_key, out.terminal.post_key>>
               = SelectedMembers([data EXCEPT !.post_key = None])

\* A member override that is explicit: non-empty and not a placeholder.
Explicit(v) == Truthy(v) /\ Lower(v) \notin Placeholders

\* The override in effect for a role of request d, by precedence: the
\* per-role key when one is given, else the deprecated post_key when
\* explicit, else the key the legacy post_size label stands for; None when
\* there is none.
WinningOverride(d, role) ==
    LET role_key == IF role = "line" THEN d.line_post_key ELSE d.terminal_post_key
    IN  IF Truthy(role_key) THEN role_key
        ELSE IF Explicit(d.post_key) THEN d.post_key
        ELSE IF Truthy(d.post_size) THEN _normalize_post_key(d.post_size).key
        ELSE None

\* C11: overrides are resolved by precedence, the per-role key over the
\* deprecated post_key over the legacy post_size label, without a capacity
\* search: when the override in effect for a role names a catalog member,
\* the role's block has that member as post_key and that member's catalog
\* label and footing as its recommendation, whether or not the member
\* passes the bending check.
C11_OverrideByPrecedence ==
    HasOutput =>
        \A role \in {"line", "terminal"} :
            LET w == WinningOverride(data, role)
                b == BlockOf(out, role)
            IN  w \in DOMAIN POST_TYPES =>
                    /\ b.post_key = w
                    /\ b.recommended.post_key = w
                    /\ b.recommended.post_label = POST_TYPES[w].label
                    /\ Some(b.recommended.footing_diameter_in)
                         = POST_TYPES[w].footing_diameter_in
                    /\ Some(b.recommended.embedment_in)
                         = POST_TYPES[w].footing_embedment_in

\* C11 witness: all three overrides name different members; the line block
\* has the per-role member although it fails the bending check, and the
\* terminal block has the post_key member, not the post_size one, with its
\* catalog footing.
C11_Witness ==
    /\ HasOutput
    /\ data.line_post_key = "2_3_8_SS40"
    /\ data.post_key = "8_5_8_PIPE"
    /\ data.post_size = "4\" Steel Pipe"
    /\ out.line.post_key = "2_3_8_SS40"
    /\ out.line.moment_ok = Some(FALSE)
    /\ out.terminal.post_key = "8_5_8_PIPE"
    /\ Some(out.terminal.recommended.footing_diameter_in)
         = POST_TYPES["8_5_8_PIPE"].footing_diameter_in

\* Request d makes calculate normalise a legacy label that is neither a
\* catalog key, a catalog label nor a legacy label.
UnknownLabel(d) ==
    /\ Truthy(d.post_size)
    /\ ~Explicit(d.post_key)
    /\ d.post_size \notin DOMAIN POST_TYPES
    /\ d.post_size \notin DOMAIN _LABEL_TO_KEY
    /\ d.post_size \notin DOMAIN _LEGACY_POST_SIZE_TO_KEY

\* C12: an unrecognised legacy post label does not fail the evaluation: the
\* "Unknown post label" diagnostic is emitted, no key comes of the label,
\* and calculate selects the same members as for the request without the
\* label.
C12_UnknownLabelFallsBackToAuto ==
    (pc /= "idle" /\ prev = <<>> /\ UnknownLabel(data)) =>
        /\ pc /= "error" /\ out /= <<>>
        /\ "unknown_post_label" \in diagnostics
        /\ _normalize_post_key(data.post_size).key = None
        /\ <<out.line.post_key, out.terminal.post_key>>
             = SelectedMembers([data EXCEPT !.post_size = None])

\* C12 witness: a request whose only override is an unknown label got the
\* auto-selected pipes and the diagnostic.
C12_Witness ==
    /\ HasOutput
    /\ data.post_size = "Unknown post"
    /\ ~Truthy(data.post_key)
    /\ out.line.post_key \in {_PIPE_POSTS_BY_SIZE[i] : i \in 1..Len(_PIPE_POSTS_BY_SIZE)}
    /\ out.terminal.post_key = out.line.post_key
    /\ "unknown_post_label" \in diagnostics

\* The elements of a sequence.
Range(s) == {s[i] : i \in DOMAIN s}

\* Catalog member k has neither outside diameter and wall thickness nor a
\* precomputed section modulus.
NoGeometry(k) ==
    /\ IsNone(POST_TYPES[k].od_in)
    /\ IsNone(POST_TYPES[k].wall_in)
    /\ IsNone(POST_TYPES[k].section_modulus_in3)

\* C13: for a block whose member has no geometry the bending and the
\* deflection check are skipped, not failed: both checks return ok, the
\* block reports both as passed, its moment_ratio is absent, and its status
\* is its spacing tier in either role.
C13_NoGeometrySkipsBendingAndDeflection ==
    HasOutput =>
        \A role \in {"line", "terminal"} :
            LET b == BlockOf(out, role)
            IN  (b.post_key \in DOMAIN POST_TYPES /\ NoGeometry(b.post_key)) =>
                    /\ compute_moment_check(b.post_key, data.height_total_ft,
                                            out.load_per_post_lb).ok
                    /\ compute_deflection_check(b.post_key, data.height_total_ft,
                                                out.load_per_post_lb).ok
                    /\ b.moment_ok = Some(TRUE)
                    /\ Val(b.deflection).deflection_ok
                    /\ IsNone(b.moment_ratio)
                    /\ "deflection" \notin Range(b.warnings)
                    /\ "terminal_bending" \notin Range(b.warnings)
                    /\ b.status = SpacingTier(b)

\* A C-shape without geometry is the terminal member of a request whose
\* auto-selected terminal post would fail bending; the block is GREEN.
C13_Witness ==
    /\ HasOutput
    /\ data.terminal_post_key = "C_1_7_8_X_1_5_8_X_105"
    /\ NoGeometry(out.terminal.post_key)
    /\ IsNone(out.terminal.moment_ratio)
    /\ out.terminal.moment_ok = Some(TRUE)
    /\ out.terminal.status = "GREEN"
    /\ ~compute_moment_check("8_5_8_PIPE", data.height_total_ft,
                             out.load_per_post_lb).ok

\* The status the spacing and bending ratios of a block give on their own:
\* the spacing tier, raised by the bending tier in the terminal role.
StatusFromRatios(role, block) ==
    IF role = "terminal" THEN Worst(SpacingTier(block), BendingTier(block))
    ELSE SpacingTier(block)

\* The request d with the footing inputs left out, so that the recommended
\* footing and the default soil class are checked, and with a deep footing
\* in sedimentary rock.
FootingVariants(d) ==
    {[d EXCEPT !.soil_type = None, !.embedment_depth_in = NoNum,
               !.footing_diameter_in = NoNum],
     [d EXCEPT !.soil_type = "rock_sedimentary", !.embedment_depth_in = Some(72),
               !.footing_diameter_in = Some(18)]}

\* Whether the line footing check of the request d passes.
LineFootingOk(d) == Val(calculate(d, Env).out.line.footing).footing_ok

\* The statuses calculate reports for the request d.
Statuses(d) ==
    LET r == calculate(d, Env)
    IN  <<r.out.line.status, r.out.terminal.status, r.out.overall_status>>

\* C14: footing and deflection failures are advisory.  A block's status is
\* what its spacing and bending ratios give, whether its footing and
\* deflection checks pass, fail or are skipped; a failed check shows as a
\* warning of the block and nothing else; and the statuses of a request do
\* not change when its footing is made to fail or to pass.
C14_FootingAndDeflectionAdvisory ==
    HasOutput =>
        /\ \A role \in {"line", "terminal"} :
              LET b == BlockOf(out, role)
              IN  /\ b.status = StatusFromRatios(role, b)
                  /\ "footing" \in Range(b.warnings)
                        <=> (~IsNone(b.footing) /\ ~Val(b.footing).footing_ok)
                  /\ "deflection" \in Range(b.warnings)
                        <=> (~IsNone(b.deflection) /\ ~Val(b.deflection).deflection_ok)
        /\ (pc = "done" /\ prev = <<>>) =>
              \A v \in FootingVariants(data) :
                  Statuses(v) = <<out.line.status, out.terminal.status,
                                  out.overall_status>>

\* A GREEN line block whose footing and deflection checks both failed and
\* whose warnings name both failures, for a request whose footing check
\* passes with other footing inputs.
C14_Witness ==
    /\ HasOutput
    /\ out.line.status = "GREEN"
    /\ ~IsNone(out.line.footing) /\ ~Val(out.line.footing).footing_ok
    /\ ~IsNone(out.line.deflection) /\ ~Val(out.line.deflection).deflection_ok
    /\ {"footing", "deflection"} \subseteq Range(out.line.warnings)
    /\ \E v \in FootingVariants(data) : LineFootingOk(v)

\* The record handed to _build_recommendation lacks footing data.
LacksFooting(post) ==
    IsNone(post.footing_diameter_in) \/ IsNone(post.footing_embedment_in)

RoundedBays(length_ft, spacing_c) ==
    LET twice == 200 * length_ft           \* 2 * length, in hundredths
        below == twice \div (2 * spacing_c)
        rest  == twice - below * 2 * spacing_c
    IN  IF rest < spacing_c THEN below
        ELSE IF rest > spacing_c THEN below + 1
        ELSE IF below % 2 = 0 THEN below ELSE below + 1

\* C16: compute_segment_quantities takes length / spacing rounded to an
\* integer, at least 1, as the bay count; the line posts are
\* max(bays - 1, 0); the total is line posts + terminals + corners + gate
\* posts; the terminal, corner and gate counts are reported as given.
C16_PostCounts ==
    pc = "done" =>
        LET bays == Max(RoundedBays(data.fence_length_ft, data.post_spacing_ft), 1)
        IN  /\ out.num_line_posts = Max(bays - 1, 0)
            /\ out.num_terminal_posts = data.num_terminals
            /\ out.num_corner_posts = data.num_corners
            /\ out.num_gate_posts = data.num_gates
            /\ out.total_posts = out.num_line_posts + data.num_terminals
                                 + data.num_corners + data.num_gates

\* 200 ft at 10 ft spacing: 19 line posts and 2 terminal posts.
C16_Witness ==
    /\ pc = "done"
    /\ data.fence_length_ft = 200 /\ data.post_spacing_ft = 1000
    /\ data.num_terminals = 2
    /\ out.num_line_posts = 19
    /\ out.num_terminal_posts = 2

\* The overall statuses of a list of segment outputs, in order.
StatusesOf(segment_outputs) ==
    [i \in DOMAIN segment_outputs |-> segment_outputs[i].estimate.overall_status]

\* The worst of a set of statuses; GREEN for the empty set.
WorstOfSet(S) ==
    IF "RED" \in S THEN "RED" ELSE IF "YELLOW" \in S THEN "YELLOW" ELSE "GREEN"

\* The loop's status aggregation run over a list of statuses from GREEN.
RECURSIVE FoldStatus(_)
FoldStatus(statuses) ==
    IF statuses = <<>> THEN "GREEN"
    ELSE AggregateStatus(FoldStatus(SubSeq(statuses, 1, Len(statuses) - 1)),
                         statuses[Len(statuses)])

\* The status calculate_project holds: the running status inside the loop,
\* the overall status after the return.
RunningStatus == IF pc = "loop" THEN out.worst_status ELSE out.overall_status

\* The segment outputs calculate_project holds.
FoldedSegments == IF pc = "loop" THEN out.segment_outputs ELSE out.segments

\* After any prefix the running status is the worst status of the segments
\* folded so far; the final status is the same for every order of the
\* segments.
StatusIsWorstSoFar ==
    /\ RunningStatus = WorstOfSet(Range(StatusesOf(FoldedSegments)))
    /\ pc = "done" =>
          \A p \in Permutations(DOMAIN out.segments) :
              FoldStatus([i \in DOMAIN out.segments |->
                             StatusesOf(out.segments)[p[i]]]) = out.overall_status

\* A step of calculate_project never moves the status toward GREEN.
StatusNeverImproves == Rank(RunningStatus') >= Rank(RunningStatus)

\* C17: calculate_project propagates the worst status.  After folding any
\* prefix of the segments the running status is the worst overall status of
\* the segments seen so far; it never moves back toward GREEN; the final
\* overall_status is RED if any segment is RED, else YELLOW if any is
\* YELLOW, else GREEN, whatever the order of the segments.
C17_WorstStatusPropagates == []StatusIsWorstSoFar /\ [][StatusNeverImproves]_vars

\* A returned project whose first segment is RED, second GREEN and third
\* YELLOW, and whose overall status is RED.
C17_Witness ==
    /\ pc = "done"
    /\ "segments" \in DOMAIN out
    /\ StatusesOf(out.segments) = <<"RED", "GREEN", "YELLOW">>
    /\ out.overall_status = "RED"

\* The sum of field f over the quantities of a list of segment outputs.
RECURSIVE SumField(_, _)
SumField(segment_outputs, f) ==
    IF segment_outputs = <<>> THEN 0
    ELSE SumField(SubSeq(segment_outputs, 1, Len(segment_outputs) - 1), f)
         + Val(segment_outputs[Len(segment_outputs)].quantities)[f]

\* The fields of QuantitiesResult.
QuantityFields ==
    {"fence_length_ft", "num_line_posts", "num_terminal_posts", "num_corner_posts",
     "num_gate_posts", "total_posts", "top_rail_lf", "fabric_sf",
     "total_concrete_cf", "total_concrete_cy", "line_post_length_ft",
     "terminal_post_length_ft"}

\* The fields calculate_project adds up segment by segment.
SummedFields ==
    QuantityFields \ {"total_concrete_cy", "line_post_length_ft",
                      "terminal_post_length_ft"}

\* The segment list of the output has one entry per input segment, in input
\* order, each carrying its estimate's quantities.
SegmentsInInputOrder ==
    /\ Len(out.segments) = Len(data.segments)
    /\ \A i \in DOMAIN out.segments :
          /\ out.segments[i].label = data.segments[i].label
          /\ out.segments[i].quantities = out.segments[i].estimate.quantities
          /\ Val(out.segments[i].quantities).fence_length_ft
                = data.segments[i].fence_length_ft

\* C18 as stated: every field of total_quantities is the sum of that field
\* over the segments of the output, and the segment list has one entry per
\* input segment in input order.
C18_EveryFieldIsSegmentSum ==
    pc = "done" =>
        /\ \A f \in QuantityFields :
              Val(out.total_quantities)[f] = SumField(out.segments, f)
        /\ SegmentsInInputOrder

\* C18, amended: the post counts per role, the total posts, the fence
\* length, the top rail, the fabric and the concrete in cubic feet of
\* total_quantities are the sums over the segments of the output; the
\* concrete in cubic yards is the summed cubic feet divided by 27 and
\* rounded; the post lengths are not aggregated and stay 0; the segment list
\* has one entry per input segment in input order.
C18_SummedFieldsAreSegmentSums ==
    pc = "done" =>
        /\ \A f \in SummedFields :
              Val(out.total_quantities)[f] = SumField(out.segments, f)
        /\ Val(out.total_quantities).total_concrete_cy
              = RoundDiv(SumField(out.segments, "total_concrete_cf"), 27)
        /\ Val(out.total_quantities).line_post_length_ft = 0
        /\ Val(out.total_quantities).terminal_post_length_ft = 0
        /\ SegmentsInInputOrder

\* A returned project of three segments, not all the same, with gate and
\* corner posts, whose total length is the sum of the input lengths and
\* whose cubic yards differ from the sum of the segments' cubic yards.
C18_Witness ==
    /\ pc = "done"
    /\ "segments" \in DOMAIN out
    /\ Len(out.segments) = 3
    /\ out.segments[1].label /= out.segments[2].label
    /\ Val(out.total_quantities).fence_length_ft
          = data.segments[1].fence_length_ft + data.segments[2].fence_length_ft
            + data.segments[3].fence_length_ft
    /\ Val(out.total_quantities).num_gate_posts > 0
    /\ Val(out.total_quantities).num_corner_posts > 0
    /\ Val(out.total_quantities).total_concrete_cy
          /= SumField(out.segments, "total_concrete_cy")

\* C19: the legacy top-level fields of an EstimateOutput are a view of the
\* line block: recommended, warnings, assumptions, max_spacing_ft,
\* M_demand_ft_lb and M_allow_ft_lb each equal the line block's field, and
\* nothing of the terminal block is merged into them.
C19_LegacyFieldsMirrorLineBlock ==
    HasOutput =>
        /\ out.recommended = out.line.recommended
        /\ out.warnings = out.line.warnings
        /\ out.assumptions = out.line.assumptions
        /\ out.max_spacing_ft = out.line.max_spacing_ft
        /\ out.M_demand_ft_lb = out.line.M_demand_ft_lb
        /\ out.M_allow_ft_lb = out.line.M_allow_ft_lb

\* The keys asked for so far.
KeysAsked == {SweepKey(i) : i \in 1..data.sweep}

\* Every value returned for a key is the same value, the parse of the key's
\* file, and it is the cached value while the key is cached.
ReturnedValuesAgree ==
    \A ws \in DOMAIN out :
        /\ out[ws] = {_load_ws_tables_body(ws, files)}
        /\ ws \in DOMAIN ws_cache => out[ws] = {ws_cache[ws]}

\* A step leaves the value of every key that stays cached as it is.
CachedValueStable ==
    \A ws \in DOMAIN ws_cache \cap DOMAIN ws_cache' : ws_cache'[ws] = ws_cache[ws]

\* No key has been inserted into the cache more than once.
PopulatedAtMostOnce == \A ws \in DOMAIN files : Populations(ws) <= 1

\* C20 as stated: for any interleaving of concurrent callers and any
\* sequence of lookups over distinct keys, the cache is populated at most
\* once per key, and once a key is populated the value observed for it never
\* changes.
C20_PopulatedOncePerKey ==
    [](PopulatedAtMostOnce /\ ReturnedValuesAgree) /\ [][CachedValueStable]_vars

\* C20, amended: the cache is populated at most once per key as long as no
\* more than LruMaxSize distinct keys have been asked for; it never holds
\* more than LruMaxSize keys; every value returned for a key is the same
\* value; a stored value is never replaced while its key stays cached.
C20_PopulatedOnceWithinCapacity ==
    /\ []((Cardinality(KeysAsked) <= LruMaxSize) => PopulatedAtMostOnce)
    /\ [](Cardinality(DOMAIN ws_cache) <= LruMaxSize /\ ReturnedValuesAgree)
    /\ [][CachedValueStable]_vars

\* Both callers missed the same key and ran the body; one result was
\* stored and the other returned without being stored; the cache is full
\* and no key has been stored twice.
C20_Witness ==
    /\ \A c \in Callers : pc[c] = "idle"
    /\ <<"not_stored", 0, 0>> \in diagnostics
    /\ Cardinality(DOMAIN ws_cache) = LruMaxSize
    /\ Cardinality(KeysAsked) = LruMaxSize
    /\ PopulatedAtMostOnce
    /\ \A ws \in KeysAsked : ws \in DOMAIN out /\ Populations(ws) = 1

(***************************************************************************)
(* C21: classify_risk reports no fact in both lists                        *)
(***************************************************************************)

AdvisoryTemplate == "Advisory - Simplified cantilever bending check (conservative)"

FootingTemplates == {"footing SF (need >= 1.50)", "footing SF (adequate but marginal)"}

\* How many entries of a message list use the given template.
CountTemplate(messages, template) ==
    Cardinality({i \in DOMAIN messages : messages[i][1] = template})

\* The roles whose footing safety factor a message list reports.
FootingRolesIn(messages) ==
    {m[2] : m \in {x \in Range(messages) : x[1] \in FootingTemplates}}

Classified == pc = "classified" /\ risk /= <<>>

\* No entry is in both lists, the advisory is in neither the reasons nor the
\* engine warnings, and no role's footing safety factor is in both lists.
NoFactInBothLists ==
    /\ Range(risk.reasons) \cap Range(risk.advanced_reasons) = {}
    /\ CountTemplate(risk.reasons, AdvisoryTemplate) = 0
    /\ AdvisoryTemplate \notin Range(out.warnings)
    /\ AdvisoryTemplate \notin Range(out.line.warnings) \cup Range(out.terminal.warnings)
    /\ FootingRolesIn(risk.reasons) \cap FootingRolesIn(risk.advanced_reasons) = {}

SpacingTemplates == {"Line spacing at", "Line spacing near limit at"}

\* The reasons hold a spacing entry about the given role.
HasSpacingReason(role_name) ==
    \E m \in Range(risk.reasons) : m[1] \in SpacingTemplates /\ m[2] = role_name

Exceeds(ratio, limit) == ~IsNone(ratio) /\ Val(ratio) > limit

\* C22: when the classified status is YELLOW or RED, the reasons hold a line
\* spacing entry if the line spacing ratio is above 0.85, a terminal spacing
\* entry if the terminal spacing ratio is above 0.85, and a terminal bending
\* entry if the terminal moment ratio is above 0.80.
C22_ReasonsNameDrivers ==
    (Classified /\ risk.status \in {"YELLOW", "RED"}) =>
        /\ Exceeds(out.line.spacing_ratio, 850) => HasSpacingReason("Line")
        /\ Exceeds(out.terminal.spacing_ratio, 850) => HasSpacingReason("Terminal")
        /\ Exceeds(out.terminal.moment_ratio, 800) =>
               CountTemplate(risk.reasons, "Terminal bending utilization") = 1

(***************************************************************************)
(* C23: compute_cf_solid clamps and interpolates over the 5-point table    *)
(***************************************************************************)

\* The table as the statement gives it: <<B/s, Cf in millionths>>.
StatedCfTable ==
    << <<2, 1200000>>, <<5, 1300000>>, <<10, 1400000>>,
       <<20, 1500000>>, <<45, 1750000>> >>

\* The straight line through two adjacent points at aspect ratio a
\* (millionths), rounded down to a millionth.
OnTheLine(lo, hi, a) ==
    lo[2] + MulDiv(a - lo[1] * 1000000, hi[2] - lo[2], (hi[1] - lo[1]) * 1000000)

Near(x, y) == x - y \in {-1, 0, 1}

\* For a given aspect ratio the result is 1.2 at or below 2, 1.75 at or
\* above 45, on the line between the two adjacent points in between, and not
\* below the result for any smaller aspect ratio.
CfOfGivenAspect ==
    (pc = "done" /\ ~IsNone(data)) =>
        LET a == Val(data)
            T == StatedCfTable
        IN  /\ a <= 2000000 => out = Some(1200000)
            /\ a >= 45000000 => out = Some(1750000)
            /\ \A i \in 1..(Len(T) - 1) :
                  (T[i][1] * 1000000 <= a /\ a <= T[i + 1][1] * 1000000)
                      => Near(Val(out), OnTheLine(T[i], T[i + 1], a))
            /\ \A b \in AspectInputs \ {NoNum} :
                  Val(b) <= a => compute_cf_solid(b) <= Val(out)

\* C23 as stated: clamped and interpolated as above, and an absent aspect
\* ratio gives the value of the table's last point.
C23_AbsentGivesTableUpperBound ==
    /\ CfOfGivenAspect
    /\ (pc = "done" /\ IsNone(data)) =>
           out = Some(StatedCfTable[Len(StatedCfTable)][2])

\* C23: clamped and interpolated as above, and an absent aspect ratio gives
\* the long-fence value 1.5, which is the table's value at B/s = 20.
C23_AbsentGivesLongFenceValue ==
    /\ CfOfGivenAspect
    /\ (pc = "done" /\ IsNone(data)) =>
           /\ out = Some(1500000)
           /\ out = Some(compute_cf_solid(Some(20000000)))

\* A call strictly between two table points: B/s = 7.5 gives 1.35.
C23_Witness ==
    /\ pc = "done"
    /\ data = Some(7500000)
    /\ out = Some(1350000)

(***************************************************************************)
(* C24: the bending demand is load per post times half the height          *)
(***************************************************************************)

\* The demand a block reports (tenths of ft-lb) is load_per_post * height / 2
\* (load in hundredths of lb), to the decimal it is reported to.
ReportsHalfHeightDemand(block) ==
    LET tenths    == Val(block.M_demand_ft_lb)
        twentieth == out.shared.load_per_post_lb * data.height_total_ft
    IN  /\ 20 * tenths - twentieth <= 10
        /\ twentieth - 20 * tenths <= 10

Blocks == {out.line, out.terminal}

\* C24 as stated: every block that reports a bending demand reports
\* load_per_post * height / 2, whatever the member.
C24_DemandIsHalfHeightForEveryMember ==
    HasOutput =>
        \A b \in Blocks :
            ~IsNone(b.M_demand_ft_lb) => ReportsHalfHeightDemand(b)

\* C24: every block whose member has section geometry reports
\* load_per_post * height / 2, the same for both roles; a block whose
\* cataloged member has no geometry reports a demand of zero.
C24_DemandIsHalfHeightWithGeometry ==
    HasOutput =>
        \A b \in Blocks :
            ~IsNone(b.M_demand_ft_lb) =>
                /\ b.post_key \in DOMAIN POST_TYPES
                /\ IF HasGeometry(b.post_key)
                   THEN ReportsHalfHeightDemand(b)
                   ELSE b.M_demand_ft_lb = Some(0)

\* Two different members with geometry report the same non-zero demand.
C24_Witness ==
    /\ HasOutput
    /\ out.line.post_key /= out.terminal.post_key
    /\ ~IsNone(out.line.M_demand_ft_lb) /\ ~IsNone(out.terminal.M_demand_ft_lb)
    /\ HasGeometry(out.line.post_key) /\ HasGeometry(out.terminal.post_key)
    /\ Val(out.line.M_demand_ft_lb) > 0
    /\ out.line.M_demand_ft_lb = out.terminal.M_demand_ft_lb
    /\ ReportsHalfHeightDemand(out.line)

(***************************************************************************)
(* C25: get_cf1 clamps outside its table and interpolates inside           *)
(***************************************************************************)

\* The returned factor is the clamped or interpolated table value: the
\* lowest point's factor up to 105 mph, the highest point's from 130 mph,
\* and on the line between the two adjacent points in between (factors in
\* 1e-4 units, table factors in tenths).
Cf1OfSpeed ==
    pc = "done" =>
        LET table == CF1_TABLE[data.group]
            v     == data.wind_speed_mph
        IN  /\ v <= 105 => out = Some(table[1][2] * 1000)
            /\ v > 130 => out = Some(table[Len(table)][2] * 1000)
            /\ \A i \in 1..(Len(table) - 1) :
                  (table[i][1] <= v /\ v <= table[i + 1][1]) =>
                      Near((Val(out) - table[i][2] * 1000)
                               * (table[i + 1][1] - table[i][1]),
                           (v - table[i][1])
                               * (table[i + 1][2] - table[i][2]) * 1000)

Cf1Warned == "cf1_out_of_range" \in diagnostics

\* C25 as stated: clamped and interpolated, with a diagnostic for every
\* wind speed above 130 mph.
C25_DiagnosticAboveTable ==
    /\ Cf1OfSpeed
    /\ (pc = "done" /\ data.wind_speed_mph > 130) => Cf1Warned

\* C25: clamped and interpolated, with a diagnostic exactly for the wind
\* speeds more than 5 mph above the table's highest speed (above 135 mph).
C25_DiagnosticBeyondFiveAboveTable ==
    /\ Cf1OfSpeed
    /\ pc = "done" => (Cf1Warned <=> data.wind_speed_mph > 135)

\* A call at 140 mph has returned the pipe group's 130 mph factor 2.0 with
\* the diagnostic.
C25_Witness ==
    /\ pc = "done"
    /\ data = [group |-> "IC_PIPE", wind_speed_mph |-> 140]
    /\ out = Some(20000)
    /\ Cf1Warned

(***************************************************************************)
(* C26: every block names a catalog member checked for spacing             *)
(***************************************************************************)

\* C26: every block of an output names a catalog member and carries a
\* spacing ratio, and a GREEN block has a spacing ratio of at most 0.85,
\* whatever string the request gave as a member override.
C26_BlocksNameCheckedCatalogMembers ==
    HasOutput =>
        \A b \in Blocks :
            /\ b.post_key \in DOMAIN POST_TYPES
            /\ ~IsNone(b.spacing_ratio)
            /\ b.status = "GREEN" => Val(b.spacing_ratio) <= 850

(***************************************************************************)
(* C27: the takeoff uses the footing of the member each block reports      *)
(***************************************************************************)

\* Post length in hundredths of a foot for a height (ft) and an embedment
\* (in): round(height + embedment / 12, 2).
PostLength(height_ft, embedment_in) ==
    RoundDiv(height_ft * 1200 + embedment_in * 100, 12)

\* Quantities are attached and the request overrides neither the embedment
\* nor the footing diameter.
TakeoffWithoutFootingOverride ==
    /\ HasOutput
    /\ ~IsNone(out.quantities)
    /\ ~TruthyNum(data.embedment_depth_in)
    /\ ~TruthyNum(data.footing_diameter_in)

\* C27: without footing overrides the post lengths of the takeoff are the
\* height plus the embedment of the member reported in the role's block,
\* also when that member was auto-selected.
C27_TakeoffUsesReportedFooting ==
    TakeoffWithoutFootingOverride =>
        /\ Val(out.quantities).line_post_length_ft
              = PostLength(data.height_total_ft, out.line.recommended.embedment_in)
        /\ Val(out.quantities).terminal_post_length_ft
              = PostLength(data.height_total_ft, out.terminal.recommended.embedment_in)

(***************************************************************************)
(* C28: terminal posts of a project are the segments' num_terminals        *)
(***************************************************************************)

\* The sum of num_terminals over the first n input segments.
RECURSIVE SumTerminals(_, _)
SumTerminals(segments, n) ==
    IF n = 0 THEN 0 ELSE SumTerminals(segments, n - 1) + segments[n].num_terminals

\* C28: each segment output reports the num_terminals of its SegmentInput as
\* num_terminal_posts, and the project total of terminal posts is the sum
\* of the segments' num_terminals.
C28_TerminalPostsAreSegmentInputs ==
    /\ pc \in {"loop", "done"} =>
          \A i \in DOMAIN FoldedSegments :
              Val(FoldedSegments[i].quantities).num_terminal_posts
                  = data.segments[i].num_terminals
    /\ pc = "done" =>
          Val(out.total_quantities).num_terminal_posts
              = SumTerminals(data.segments, Len(data.segments))

(***************************************************************************)
(* C29: the spacing warning and the status agree                           *)
(***************************************************************************)

\* The block carries the warning that the current spacing exceeds the
\* maximum recommended spacing.
HasSpacingWarning(block) == "spacing" \in Range(block.warnings)

\* C29: a block with the spacing warning is RED, and a block that is RED
\* from spacing (spacing ratio above 1.0) carries the warning.
C29_SpacingWarningMeansRed ==
    HasOutput =>
        \A b \in Blocks :
            /\ HasSpacingWarning(b) => b.status = "RED"
            /\ (b.status = "RED" /\ Exceeds(b.spacing_ratio, 1000))
                   => HasSpacingWarning(b)

(***************************************************************************)
(* C30: a footing without overturning demand is not reported as failing    *)
(***************************************************************************)

\* C30: compute_footing_check with zero lateral load and a positive
\* embedment and diameter reports footing_ok with a safety factor of at
\* least the required 1.5 (reported in hundredths).
C30_ZeroLoadFootingPasses ==
    (pc = "done" /\ data.load_per_post_lb = 0
        /\ data.embedment_depth_in > 0 /\ data.footing_diameter_in > 0) =>
        /\ out.overturning_moment_ft_lb = 0
        /\ out.footing_ok
        /\ out.safety_factor >= 150

=============================================================================
